---- MODULE Spec2Model ----
(***************************************************************************)
(* A model of the data-file loaders of src/src/server/obj-init.c.          *)
(*                                                                         *)
(* Every file parser of that file has the same life cycle:                 *)
(*     init_parse_X  -> (one callback per line of the file)                *)
(*                   -> finish_parse_X -> ... -> cleanup_X                 *)
(* The callbacks build a singly linked list of records, newest first, in   *)
(* the parser's private slot; finish copies the list into a global array   *)
(* and records its length in z_info; cleanup releases the array.           *)
(*                                                                         *)
(* Representation.                                                         *)
(*   - a linked list is a sequence, head (newest record) first; the empty  *)
(*     sequence is the NULL list;                                          *)
(*   - a global table is [ptr, rows]: ptr = 0 is the NULL pointer, rows    *)
(*     is the array, C index i being rows[i + 1];                          *)
(*   - a C string pointer is a string, NullStr being the NULL pointer;     *)
(*   - an optional sub-allocation is a sequence of length 0 (NULL) or 1;   *)
(*   - a callback is an operator from the "world" (the private slot and    *)
(*     the globals) and the line's arguments to [ret, w]: the code it      *)
(*     returns and the world it leaves.                                    *)
(***************************************************************************)
EXTENDS Integers, Sequences, FiniteSets, TLC

VARIABLES
    parser,     \* name of the file_parser this behaviour follows, "none" before any call
    pc,         \* where the pass stands: idle, run, finished, cleaned, quit, abort, undefined
    file,       \* the directives of the current file dispatched so far (history)
    ret,        \* the code returned by the last callback
    priv,       \* parser_priv(p)
    tables,     \* the global tables (slays, brands, k_info, ...)
    z_info,     \* the recorded counts (z_info->slay_max, ...)
    nfree,      \* heap ghost: how many times each allocation has been released
    reads,      \* heap ghost: the rows the most recent cleanup read
    ncleanup,   \* number of cleanup calls made so far
    nexpr,      \* heap ghost: the expressions of expression_new() no one owns or freed
    data,       \* the struct sound_data the SDL sound module is called with
    mixer       \* SDL_mixer ghost: the samples it has made, and the call last made

vars ==
    <<parser, pc, file, ret, priv, tables, z_info, nfree, reads, ncleanup, nexpr,
      data, mixer>>

-----------------------------------------------------------------------------
(* Bounds of the model *)

\* Lines dispatched from one file.
MaxLines == 4

\* Calls of one table's cleanup.
MaxCleanups == 2

\* Tokens in one flag string.
MaxTokens == 3

-----------------------------------------------------------------------------
(* Values *)

NullStr == "(null)"

NullPtr == <<"null", 0>>

\* A pointer to a transient list node (the record pushed before this one).
NodePtr == <<"node", 0>>

\* &table[i]
ElemPtr(tname, i) == <<tname, i>>

PARSE_ERROR_NONE == "PARSE_ERROR_NONE"

\* One line of a data file: the directive and its arguments after the
\* parser's type coercion (two string arguments, one integer, one token list;
\* s3 and m are the third string and the second integer of the lines that
\* have them).
Dir(d, s1, s2, n, toks) ==
    [d |-> d, s1 |-> s1, s2 |-> s2, n |-> n, toks |-> toks, s3 |-> "", m |-> 0]

\* The world a callback works on.
World == [priv |-> priv, tables |-> tables, z_info |-> z_info,
          nfree |-> nfree, reads |-> reads, nexpr |-> nexpr]

Ok(w) == [ret |-> PARSE_ERROR_NONE, w |-> w]

Err(code, w) == [ret |-> code, w |-> w]

\* my_assert(cond) failed: the process aborts.
Aborted(w) == [ret |-> "abort", w |-> w]

\* The callback ran into undefined behaviour and the process died of it.
Crashed(w) == [ret |-> "crash", w |-> w]

-----------------------------------------------------------------------------
(* Initialize object slays *)

slay_zero ==
    [code |-> NullStr, name |-> NullStr, multiplier |-> 0, power |-> 0,
     next |-> NullPtr, race_flag |-> 0, base |-> NullStr]

\* mem_zalloc'd record linked in front of the list h.
NewNode(zero, h) == [zero EXCEPT !.next = IF h = <<>> THEN NullPtr ELSE NodePtr]

\* A plausible slip: the new record takes the place of the head.
parse_slay_code_in_place(w, code) ==
    LET slay == [NewNode(slay_zero, w.priv) EXCEPT !.code = code]
    IN  Ok([w EXCEPT !.priv = <<slay>> \o (IF w.priv = <<>> THEN <<>> ELSE Tail(w.priv))])

parse_slay_code(w, code) ==
    LET slay == [NewNode(slay_zero, w.priv) EXCEPT !.code = code]
    IN  Ok([w EXCEPT !.priv = <<slay>> \o w.priv])

parse_slay_name(w, name) ==
    IF w.priv = <<>> THEN Err("PARSE_ERROR_MISSING_RECORD_HEADER", w)
    ELSE Ok([w EXCEPT !.priv[1].name = name])

\* list-mon-race-flags.h, cut down to two flags after NONE.
r_info_flags == <<"NONE", "EVIL", "ORC">>

\* The index of flag_name in flag_table, or FLAG_END, which is 0, the index
\* of NONE.
lookup_flag(flag_table, flag_name) ==
    IF \E i \in 1..Len(flag_table) : flag_table[i] = flag_name
    THEN (CHOOSE i \in 1..Len(flag_table) : flag_table[i] = flag_name) - 1
    ELSE 0

\* The names of the monster bases read from monster_base.txt.
rb_info == {"orc", "dragon"}

\* TRUE when base_name is the name of a monster base, FALSE for NULL.
lookup_monster_base(base_name) == base_name \in rb_info

parse_slay_race_flag(w, name) ==
    LET flag == lookup_flag(r_info_flags, name) IN
    IF w.priv = <<>> THEN Err("PARSE_ERROR_MISSING_RECORD_HEADER", w)
    ELSE IF flag = 0 THEN Err("PARSE_ERROR_INVALID_FLAG", w)
    ELSE LET w1 == [w EXCEPT !.priv[1].race_flag = flag] IN
         IF w1.priv[1].race_flag # 0 /\ w1.priv[1].base # NullStr
         THEN Err("PARSE_ERROR_INVALID_SLAY", w1)
         ELSE Ok(w1)

\* A plausible slip: the base is stored without a look at the race flag.
parse_slay_base_unchecked(w, base_name) ==
    IF w.priv = <<>> THEN Err("PARSE_ERROR_MISSING_RECORD_HEADER", w)
    ELSE LET w1 == [w EXCEPT !.priv[1].base = base_name] IN
         IF ~lookup_monster_base(base_name)
         THEN Err("PARSE_ERROR_INVALID_MONSTER_BASE", w1)
         ELSE Ok(w1)

parse_slay_base(w, base_name) ==
    IF w.priv = <<>> THEN Err("PARSE_ERROR_MISSING_RECORD_HEADER", w)
    ELSE LET w1 == [w EXCEPT !.priv[1].base = base_name] IN
         IF ~lookup_monster_base(base_name)
         THEN Err("PARSE_ERROR_INVALID_MONSTER_BASE", w1)
         ELSE IF w1.priv[1].race_flag # 0 /\ w1.priv[1].base # NullStr
         THEN Err("PARSE_ERROR_INVALID_SLAY", w1)
         ELSE Ok(w1)

parse_slay_multiplier_keep_first(w, multiplier) ==
    IF w.priv = <<>> THEN Err("PARSE_ERROR_MISSING_RECORD_HEADER", w)
    ELSE IF w.priv[1].multiplier # 0 THEN Ok(w)
    ELSE Ok([w EXCEPT !.priv[1].multiplier = multiplier])

parse_slay_multiplier(w, multiplier) ==
    IF w.priv = <<>> THEN Err("PARSE_ERROR_MISSING_RECORD_HEADER", w)
    ELSE Ok([w EXCEPT !.priv[1].multiplier = multiplier])

parse_slay_power(w, power) ==
    IF w.priv = <<>> THEN Err("PARSE_ERROR_MISSING_RECORD_HEADER", w)
    ELSE Ok([w EXCEPT !.priv[1].power = power])

\* A plausible slip: the count stops at the record whose next is NULL.
count_entries_short(list) == IF list = <<>> THEN 0 ELSE Len(list) - 1

\* "Count the entries": the while loop over ->next that every finish runs.
RECURSIVE count_entries(_)
count_entries(list) ==
    IF list = <<>> THEN 0 ELSE 1 + count_entries(Tail(list))

\* mem_zalloc(n * sizeof(row)): n zeroed rows.  What a request of zero bytes
\* returns is the allocator's choice p0 (NULL or a pointer nothing may be read from).
mem_zalloc(n, zero, p0) ==
    [ptr |-> IF n = 0 THEN p0 ELSE 1, rows |-> [i \in 1..n |-> zero]]

\* A plausible slip: the array is filled from index 0 upwards.
RECURSIVE copy_list_forward(_, _, _)
copy_list_forward(list, count, arr) ==
    IF list = <<>> THEN arr
    ELSE copy_list_forward(Tail(list), count - 1,
                           [arr EXCEPT ![Len(arr) - count] = Head(list)])

\* The copy loop every finish runs: for (x = head; x; x = next, count--)
\* memcpy(&table[count], x, sizeof(*x)), count starting at max - 1.
RECURSIVE copy_list(_, _, _)
copy_list(list, count, arr) ==
    IF list = <<>> THEN arr
    ELSE copy_list(Tail(list), count - 1,
                   [arr EXCEPT ![count + 1] = Head(list)])

finish_parse_slay(w, p0) ==
    LET max == count_entries(w.priv)
        mem == mem_zalloc(max, slay_zero, p0)
        arr == copy_list(w.priv, max - 1, mem.rows)
    IN  [w EXCEPT !.z_info.slay_max = max,
                  !.tables.slays =
                      [ptr |-> mem.ptr,
                       rows |-> [i \in DOMAIN arr |-> [arr[i] EXCEPT !.next = NullPtr]]],
                  !.priv = <<>>]

-----------------------------------------------------------------------------
(* The heap ghost *)

\* The allocation behind field f of row idx of a table; (0, "array") is the array.
Alloc(tname, idx, f) == <<tname, idx, f>>

ArrayOf(tname) == Alloc(tname, 0, "array")

Released(nf, id) == id \in DOMAIN nf

\* string_free / mem_free of every allocation in ids.
Free(nf, ids) ==
    [id \in DOMAIN nf \cup ids |->
        (IF id \in DOMAIN nf THEN nf[id] ELSE 0) + (IF id \in ids THEN 1 ELSE 0)]

\* The string fields among fs that row r holds (string_free(NULL) does nothing).
Strings(tname, idx, r, fs) ==
    {Alloc(tname, idx, f) : f \in {g \in fs : r[g] # NullStr}}

\* The sub-allocations among fs that row r holds (mem_free(NULL) does nothing).
Subs(tname, idx, r, fs) ==
    {Alloc(tname, idx, f) : f \in {g \in fs : r[g] # <<>>}}

\* A plausible slip: the loop over the rows runs to idx <= max.
cleanup_table_inclusive(w, tname, max, owned, ub) ==
    LET t == w.tables[tname] IN
    IF t.ptr = 0 THEN [ret |-> "returned", w |-> [w EXCEPT !.reads = {}]]
    ELSE [ret |-> "returned",
          w |-> [w EXCEPT !.reads = 0..max,
                          !.nfree = Free(w.nfree, owned \cup {ArrayOf(tname)})]]

\* The shape of every cleanup_X: return at once on a NULL table; otherwise
\* release what each of the first max rows owns, then the array.  owned is
\* the set of allocations the rows hold.  A table pointer that still holds
\* the address of a released array is dangling: reading rows through it and
\* releasing them again is undefined, and ub is what the build makes of it
\* ("stale": the old contents are read back and released again; "crash").
cleanup_table(w, tname, max, owned, ub) ==
    LET t == w.tables[tname] IN
    IF t.ptr = 0 THEN [ret |-> "returned", w |-> [w EXCEPT !.reads = {}]]
    ELSE IF Released(w.nfree, ArrayOf(tname))
    THEN IF ub = "crash" THEN Crashed(w)
         ELSE [ret |-> "undefined",
               w |-> [w EXCEPT !.reads = 0..(max - 1),
                               !.nfree = Free(w.nfree, owned \cup {ArrayOf(tname)})]]
    ELSE [ret |-> "returned",
          w |-> [w EXCEPT !.reads = 0..(max - 1),
                          !.nfree = Free(w.nfree, owned \cup {ArrayOf(tname)})]]

RowsUpTo(t, max) == {i \in 0..(max - 1) : i + 1 \in DOMAIN t.rows}

cleanup_slay(w, ub) ==
    LET t == w.tables.slays
        max == w.z_info.slay_max
    IN  cleanup_table(w, "slays", max,
            UNION {Strings("slays", i, t.rows[i + 1], {"code", "name", "base"}) :
                   i \in RowsUpTo(t, max)}, ub)

-----------------------------------------------------------------------------
(* Names the header files of the game supply *)

\* list-tvals.h, cut down to three object types; TV_NULL is index 0.
tval_names == <<"none", "sword", "light">>

TV_MAX == Len(tval_names)

\* sscanf(name, "%u", &r): the number a numeric name denotes, -1 for a name
\* that is not a number.
scan_uint(name) ==
    CASE name = "1" -> 1
      [] name = "7" -> 7
      [] OTHER -> -1

\* A number is taken as it stands, whether or not it is below TV_MAX (the
\* finish of object_base.txt tests for it); a name is looked up in the list.
tval_find_idx(name) ==
    IF scan_uint(name) >= 0 THEN scan_uint(name)
    ELSE IF \E i \in 1..TV_MAX : tval_names[i] = name
    THEN (CHOOSE i \in 1..TV_MAX : tval_names[i] = name) - 1
    ELSE -1

\* list-elements.h, cut down to one base element and one high element.
list_element_names == <<"ACID", "POIS">>

ELEM_MAX == Len(list_element_names)

\* A plausible slip: the rows keep the next pointers of the list nodes.
NextKept(arr) == arr

\* The finished rows with every next pointer cleared.
NextNull(arr) == [i \in DOMAIN arr |-> [arr[i] EXCEPT !.next = NullPtr]]

\* The finished rows chained in index order: row count points at row
\* count + 1, the last of the max rows at NULL.
NextChain(tname, arr, max) ==
    [i \in DOMAIN arr |->
        IF i > max THEN arr[i]
        ELSE [arr[i] EXCEPT !.next = IF i - 1 < max - 1 THEN ElemPtr(tname, i)
                                     ELSE NullPtr]]

-----------------------------------------------------------------------------
(* Initialize projections *)

projection_zero == [index |-> 0, name |-> NullStr, type |-> NullStr, next |-> NullPtr]

\* A plausible slip: the new record takes the index of the one before it.
parse_projection_code_same_index(w, code) ==
    LET h == w.priv
        index == IF h # <<>> THEN h[1].index ELSE 0
        projection == [NewNode(projection_zero, h) EXCEPT !.index = index]
        w1 == [w EXCEPT !.priv = <<projection>> \o h]
    IN  IF index < ELEM_MAX /\ code # list_element_names[index + 1]
        THEN Err("PARSE_ERROR_ELEMENT_NAME_MISMATCH", w1)
        ELSE Ok(w1)

parse_projection_code(w, code) ==
    LET h == w.priv
        index == IF h # <<>> THEN h[1].index + 1 ELSE 0
        projection == [NewNode(projection_zero, h) EXCEPT !.index = index]
        w1 == [w EXCEPT !.priv = <<projection>> \o h]
    IN  IF index < ELEM_MAX /\ code # list_element_names[index + 1]
        THEN Err("PARSE_ERROR_ELEMENT_NAME_MISMATCH", w1)
        ELSE Ok(w1)

parse_projection_name(w, name) ==
    IF w.priv = <<>> THEN Err("PARSE_ERROR_MISSING_RECORD_HEADER", w)
    ELSE Ok([w EXCEPT !.priv[1].name = name])

finish_parse_projection(w, p0) ==
    LET max == count_entries(w.priv)
        mem == mem_zalloc(max, projection_zero, p0)
        arr == copy_list(w.priv, max - 1, mem.rows)
    IN  [w EXCEPT !.z_info.projection_max = max,
                  !.tables.projections = [ptr |-> mem.ptr, rows |-> NextNull(arr)],
                  !.priv = <<>>]

cleanup_projection(w, ub) ==
    LET t == w.tables.projections
        max == w.z_info.projection_max
    IN  cleanup_table(w, "projections", max,
            UNION {Strings("projections", i, t.rows[i + 1], {"name", "type"}) :
                   i \in RowsUpTo(t, max)}, ub)

-----------------------------------------------------------------------------
(* Initialize object brands *)

brand_zero ==
    [code |-> NullStr, name |-> NullStr, multiplier |-> 0, power |-> 0,
     next |-> NullPtr]

parse_brand_code(w, code) ==
    LET brand == [NewNode(brand_zero, w.priv) EXCEPT !.code = code]
    IN  Ok([w EXCEPT !.priv = <<brand>> \o w.priv])

parse_brand_multiplier(w, multiplier) ==
    IF w.priv = <<>> THEN Err("PARSE_ERROR_MISSING_RECORD_HEADER", w)
    ELSE Ok([w EXCEPT !.priv[1].multiplier = multiplier])

finish_parse_brand(w, p0) ==
    LET max == count_entries(w.priv)
        mem == mem_zalloc(max, brand_zero, p0)
        arr == copy_list(w.priv, max - 1, mem.rows)
    IN  [w EXCEPT !.z_info.brand_max = max,
                  !.tables.brands = [ptr |-> mem.ptr, rows |-> NextNull(arr)],
                  !.priv = <<>>]

cleanup_brand(w, ub) ==
    LET t == w.tables.brands
        max == w.z_info.brand_max
    IN  cleanup_table(w, "brands", max,
            UNION {Strings("brands", i, t.rows[i + 1], {"code", "name"}) :
                   i \in RowsUpTo(t, max)}, ub)

-----------------------------------------------------------------------------
(* Effects, dice and expressions *)

\* list-effects.h, cut down to two effect names.
effect_names == {"HEAL_HP", "NOURISH"}

effect_zero ==
    [index |-> NullStr, y |-> 0, x |-> 0, dice |-> <<>>,
     self_msg |-> NullStr, other_msg |-> NullStr]

\* grab_effect_data(p, effect): the effect named by the line, an error for
\* a name that is no effect.
grab_effect_data(eff) ==
    IF eff \in effect_names THEN [ret |-> PARSE_ERROR_NONE, effect |-> [effect_zero EXCEPT !.index = eff]]
    ELSE [ret |-> "PARSE_ERROR_INVALID_EFFECT", effect |-> effect_zero]

\* The variables of the dice strings read: "$B" has the variable B, "1d4"
\* has none, any other string is malformed.
dice_variables(string) ==
    CASE string = "$B" -> {"B"}
      [] OTHER -> {}

\* dice_parse_string(dice, string): false for a malformed string.
dice_parse_string(string) == string \in {"$B", "1d4"}

\* dice_new() followed by a successful dice_parse_string(): no variable is
\* bound to an expression yet.
dice_new(string) ==
    [string |-> string, expressions |-> [v \in dice_variables(string) |-> <<>>]]

\* spell_value_base_by_name(name): NULL for a name that is no accessor.
spell_value_base_by_name(name) ==
    IF name \in {"PLAYER_LEVEL", "DUNGEON_LEVEL"} THEN name ELSE "NULL"

\* power_calculation_by_name(name): NULL for a name that is no calculation.
power_calculation_by_name(name) ==
    IF name \in {"OBJ_POWER_TO_DAM"} THEN name ELSE "NULL"

\* expression_add_operations_string(expression, string): negative for a
\* string that is no operation sequence.
expression_add_operations_string(string) ==
    IF string \in {"+ 1", "* 2"} THEN 1 ELSE -1

\* dice_bind_expression(dice, name, expression): the dice with a copy of the
\* expression bound to its variable name, -1 when it has no such variable.
dice_bind_expression(dice, name, expression) ==
    IF name \notin DOMAIN dice.expressions THEN [ret |-> -1, dice |-> dice]
    ELSE [ret |-> 0, dice |-> [dice EXCEPT !.expressions[name] = <<expression>>]]

\* A plausible slip: the new effect is linked behind the last one.
push_effect_behind(effects, eff) ==
    LET r == grab_effect_data(eff)
    IN  IF r.ret # PARSE_ERROR_NONE THEN [ret |-> r.ret, effects |-> effects]
        ELSE [ret |-> PARSE_ERROR_NONE, effects |-> effects \o <<r.effect>>]

\* new_effect->next = x->effect; x->effect = new_effect.
push_effect(effects, eff) ==
    LET r == grab_effect_data(eff)
    IN  IF r.ret # PARSE_ERROR_NONE THEN [ret |-> r.ret, effects |-> effects]
        ELSE [ret |-> PARSE_ERROR_NONE, effects |-> <<r.effect>> \o effects]

\* The effect-yx callbacks once the record is known to exist.
set_effect_yx(effects, y, x) ==
    IF effects = <<>> THEN effects
    ELSE [effects EXCEPT ![1].y = y, ![1].x = x]

\* The dice callbacks from dice_new() on: the dice slot after the line.
\* A plausible slip: dice that do not parse take the place of the old ones.
set_dice_dropping(slot, string) ==
    IF dice_parse_string(string)
    THEN [ret |-> PARSE_ERROR_NONE, dice |-> <<dice_new(string)>>]
    ELSE [ret |-> "PARSE_ERROR_INVALID_DICE", dice |-> <<>>]

set_dice(slot, string) ==
    IF dice_parse_string(string)
    THEN [ret |-> PARSE_ERROR_NONE, dice |-> <<dice_new(string)>>]
    ELSE [ret |-> "PARSE_ERROR_INVALID_DICE", dice |-> slot]

\* The expr callbacks from expression_new() on, for a dice slot that holds
\* dice: function is what the selector name resolved to, NULL included.
\* live counts the expression of expression_new() when the callback returns
\* without expression_free(): the two error returns come before it.
bind_expr(slot, name, function, expr) ==
    IF expression_add_operations_string(expr) < 0
    THEN [ret |-> "PARSE_ERROR_BAD_EXPRESSION_STRING", dice |-> slot, live |-> 1]
    ELSE LET b == dice_bind_expression(slot[1], name, [base |-> function, operations |-> expr])
         IN  IF b.ret < 0
             THEN [ret |-> "PARSE_ERROR_UNBOUND_EXPRESSION", dice |-> slot, live |-> 1]
             ELSE [ret |-> PARSE_ERROR_NONE, dice |-> <<b.dice>>, live |-> 0]

\* x->effect->dice = dice: the dice of the newest effect.
effect_dice(effects, string) ==
    LET r == set_dice(effects[1].dice, string)
    IN  [ret |-> r.ret, effects |-> [effects EXCEPT ![1].dice = r.dice]]

\* A plausible slip: the term is bound in the newest dice of the record,
\* whichever effect holds them.
effect_expr_any_dice(effects, name, function, expr) ==
    LET has == {i \in 1..Len(effects) : effects[i].dice # <<>>}
        i == CHOOSE j \in has : \A h \in has : j <= h
    IN  IF has = {} THEN [ret |-> PARSE_ERROR_NONE, effects |-> effects, live |-> 0]
        ELSE LET r == bind_expr(effects[i].dice, name, function, expr)
             IN  [ret |-> r.ret, effects |-> [effects EXCEPT ![i].dice = r.dice],
                  live |-> r.live]

\* The expr callbacks of records with effects, once the record is known to
\* have one: nothing happens when x->effect->dice is NULL.
effect_expr(effects, name, function, expr) ==
    IF effects[1].dice = <<>> THEN [ret |-> PARSE_ERROR_NONE, effects |-> effects, live |-> 0]
    ELSE LET r == bind_expr(effects[1].dice, name, function, expr)
         IN  [ret |-> r.ret, effects |-> [effects EXCEPT ![1].dice = r.dice],
              live |-> r.live]

-----------------------------------------------------------------------------
(* Initialize activations *)

act_zero ==
    [name |-> NullStr, index |-> 0, power |-> 0, effect |-> <<>>,
     message |-> NullStr, next |-> NullPtr]

parse_act_name(w, name) ==
    LET act == [NewNode(act_zero, w.priv) EXCEPT !.name = name]
    IN  Ok([w EXCEPT !.priv = <<act>> \o w.priv])

parse_act_power(w, power) ==
    IF w.priv = <<>> THEN Aborted(w)
    ELSE Ok([w EXCEPT !.priv[1].power = power])

parse_act_effect(w, eff) ==
    IF w.priv = <<>> THEN Err("PARSE_ERROR_MISSING_RECORD_HEADER", w)
    ELSE LET r == push_effect(w.priv[1].effect, eff)
         IN  Err(r.ret, [w EXCEPT !.priv[1].effect = r.effects])

parse_act_effect_yx(w, y, x) ==
    IF w.priv = <<>> THEN Err("PARSE_ERROR_MISSING_RECORD_HEADER", w)
    ELSE Ok([w EXCEPT !.priv[1].effect = set_effect_yx(@, y, x)])

parse_act_dice(w, string) ==
    IF w.priv = <<>> THEN Err("PARSE_ERROR_MISSING_RECORD_HEADER", w)
    ELSE IF w.priv[1].effect = <<>> THEN Ok(w)
    ELSE LET r == effect_dice(w.priv[1].effect, string)
         IN  Err(r.ret, [w EXCEPT !.priv[1].effect = r.effects])

parse_act_expr(w, name, base, expr) ==
    IF w.priv = <<>> THEN Err("PARSE_ERROR_MISSING_RECORD_HEADER", w)
    ELSE IF w.priv[1].effect = <<>> THEN Ok(w)
    ELSE LET r == effect_expr(w.priv[1].effect, name, spell_value_base_by_name(base), expr)
         IN  Err(r.ret, [w EXCEPT !.priv[1].effect = r.effects,
                                  !.nexpr = @ + r.live])

parse_act_msg_self(w, msg) ==
    IF w.priv = <<>> THEN Err("PARSE_ERROR_MISSING_RECORD_HEADER", w)
    ELSE IF w.priv[1].effect = <<>> THEN Ok(w)
    ELSE Ok([w EXCEPT !.priv[1].effect[1].self_msg = msg])

parse_act_msg_other(w, msg) ==
    IF w.priv = <<>> THEN Err("PARSE_ERROR_MISSING_RECORD_HEADER", w)
    ELSE IF w.priv[1].effect = <<>> THEN Ok(w)
    ELSE Ok([w EXCEPT !.priv[1].effect[1].other_msg = msg])

\* string_append(s1, s2): s2 when s1 is NULL, the two joined otherwise.
string_append(s1, s2) == IF s1 = NullStr THEN s2 ELSE s1 \o s2

parse_act_msg(w, msg) ==
    IF w.priv = <<>> THEN Aborted(w)
    ELSE Ok([w EXCEPT !.priv[1].message = string_append(@, msg)])

finish_parse_act(w, p0) ==
    LET max == count_entries(w.priv)
        mem == mem_zalloc(max, act_zero, p0)
        arr == copy_list(w.priv, max - 1, mem.rows)
        idx == [i \in DOMAIN arr |-> [arr[i] EXCEPT !.index = i - 1]]
    IN  [w EXCEPT !.z_info.act_max = max,
                  !.tables.activations =
                      [ptr |-> mem.ptr, rows |-> NextChain("activations", idx, max)],
                  !.priv = <<>>]

cleanup_act(w, ub) ==
    LET t == w.tables.activations
        max == w.z_info.act_max
    IN  cleanup_table(w, "activations", max,
            UNION {Strings("activations", i, t.rows[i + 1], {"name"}) :
                   i \in RowsUpTo(t, max)}, ub)

-----------------------------------------------------------------------------
(* Initialize object properties *)

property_zero ==
    [name |-> NullStr, power |-> 0, type_mult |-> [t \in 0..(TV_MAX - 1) |-> 0],
     next |-> NullPtr, type |-> 0, index |-> 0]

parse_object_property_name(w, name) ==
    LET prop == [NewNode(property_zero, w.priv) EXCEPT
                    !.name = name,
                    !.type_mult = [t \in 0..(TV_MAX - 1) |-> 1]]
    IN  Ok([w EXCEPT !.priv = <<prop>> \o w.priv])

\* enum obj_property_type after OBJ_PROPERTY_NONE = 0, by the name a type
\* line gives each: OBJ_PROPERTY_STAT = 1, ..., OBJ_PROPERTY_IMM = 7.
obj_property_types ==
    <<"stat", "mod", "flag", "ignore", "resistance", "vulnerability", "immunity">>

\* list-stats.h and list-object-modifiers.h, cut down to a stat and a modifier.
obj_mods == <<"STR", "STEALTH">>

\* list_obj_flag_names as the array of strings it is: NONE, then the flags.
obj_flag_codes == <<"NONE", "SEE_INVIS", "FEATHER">>

\* The index of code in arr, counted from 0, or -1.
code_index_in_array(arr, code) ==
    IF \E i \in 1..Len(arr) : arr[i] = code
    THEN (CHOOSE i \in 1..Len(arr) : arr[i] = code) - 1
    ELSE -1

parse_object_property_type(w, name) ==
    IF w.priv = <<>> THEN Err("PARSE_ERROR_MISSING_RECORD_HEADER", w)
    ELSE IF code_index_in_array(obj_property_types, name) < 0
    THEN Err("PARSE_ERROR_INVALID_PROPERTY", w)
    ELSE Ok([w EXCEPT !.priv[1].type = code_index_in_array(obj_property_types, name) + 1])

\* A plausible slip: the code is looked up whether or not a type was read.
parse_object_property_code_untyped(w, code) ==
    LET type == IF w.priv = <<>> THEN 0 ELSE w.priv[1].type
        index == CASE type \in {0, 1, 2} -> code_index_in_array(obj_mods, code)
                   [] type = 3 -> code_index_in_array(obj_flag_codes, code)
                   [] OTHER -> code_index_in_array(list_element_names, code)
    IN  IF w.priv = <<>> THEN Err("PARSE_ERROR_MISSING_RECORD_HEADER", w)
        ELSE IF index >= 0 THEN Ok([w EXCEPT !.priv[1].index = index])
        ELSE Err("PARSE_ERROR_INVALID_OBJ_PROP_CODE", w)

parse_object_property_code(w, code) ==
    LET type == IF w.priv = <<>> THEN 0 ELSE w.priv[1].type
        index == CASE type \in {1, 2} -> code_index_in_array(obj_mods, code)
                   [] type = 3 -> code_index_in_array(obj_flag_codes, code)
                   [] type \in {4, 5, 6, 7} -> code_index_in_array(list_element_names, code)
                   [] OTHER -> -1
    IN  IF w.priv = <<>> THEN Err("PARSE_ERROR_MISSING_RECORD_HEADER", w)
        ELSE IF type = 0 THEN Err("PARSE_ERROR_MISSING_OBJ_PROP_TYPE", w)
        ELSE IF index >= 0 THEN Ok([w EXCEPT !.priv[1].index = index])
        ELSE Err("PARSE_ERROR_INVALID_OBJ_PROP_CODE", w)

parse_object_property_power(w, power) ==
    IF w.priv = <<>> THEN Err("PARSE_ERROR_MISSING_RECORD_HEADER", w)
    ELSE Ok([w EXCEPT !.priv[1].power = power])

finish_parse_object_property(w, p0) ==
    LET max == count_entries(w.priv)
        mem == mem_zalloc(max, property_zero, p0)
        arr == copy_list(w.priv, max - 1, mem.rows)
    IN  [w EXCEPT !.z_info.property_max = max,
                  !.tables.obj_properties = [ptr |-> mem.ptr, rows |-> NextNull(arr)],
                  !.priv = <<>>]

cleanup_object_property(w, ub) ==
    LET t == w.tables.obj_properties
        max == w.z_info.property_max
    IN  cleanup_table(w, "obj_properties", max,
            UNION {Strings("obj_properties", i, t.rows[i + 1], {"name"}) :
                   i \in RowsUpTo(t, max)}, ub)

-----------------------------------------------------------------------------
(* Flag strings *)

\* A flag token is the sequence of its parts between underscores, so that
\* "IGNORE_ACID" is <<"IGNORE", "ACID">>; a flag string is the sequence of
\* tokens strtok(s, " |") yields.

\* list-object-flags.h and list-kind-flags.h, cut down to two names each.
list_obj_flag_names == {<<"SEE", "INVIS">>, <<"FEATHER">>}

KF_INSTA_ART == <<"INSTA", "ART">>

kind_flags == {KF_INSTA_ART, <<"EASY", "KNOW">>}

\* grab_flag(flags, size, flag_table, name): 0 and the bit set when the table
\* has the name, an error and flags untouched otherwise.
grab_flag(flags, flag_table, t) ==
    IF t \in flag_table THEN [err |-> FALSE, flags |-> flags \cup {t}]
    ELSE [err |-> TRUE, flags |-> flags]

el_zero == [i \in 0..(ELEM_MAX - 1) |-> [flags |-> {}, res_level |-> 0]]

\* sscanf(flag_name, "%[^_]_%s", prefix, suffix) cuts at the first underscore.
grab_element_flag(info, t) ==
    IF Len(t) < 2 THEN [found |-> FALSE, info |-> info]
    ELSE LET prefix == Head(t)
             suffix == Tail(t)
             hit == {i \in 0..(ELEM_MAX - 1) : suffix = <<list_element_names[i + 1]>>}
         IN  IF hit # {} /\ prefix = "IGNORE"
             THEN [found |-> TRUE,
                   info |-> [i \in DOMAIN info |->
                               IF i \in hit THEN [info[i] EXCEPT !.flags = @ \cup {"EL_INFO_IGNORE"}]
                               ELSE info[i]]]
             ELSE IF hit # {} /\ prefix = "HATES"
             THEN [found |-> TRUE,
                   info |-> [i \in DOMAIN info |->
                               IF i \in hit THEN [info[i] EXCEPT !.flags = @ \cup {"EL_INFO_HATES"}]
                               ELSE info[i]]]
             ELSE [found |-> FALSE, info |-> info]

\* A plausible slip: a token nothing accepts is passed over instead of
\* stopping the scan.
RECURSIVE kind_flags_loop_skip(_, _)
kind_flags_loop_skip(k, toks) ==
    IF toks = <<>> THEN [k |-> k, t |-> <<>>]
    ELSE LET t == Head(toks)
             f == grab_flag(k.flags, list_obj_flag_names, t)
             kf == grab_flag(k.kind_flags, kind_flags, t)
             el == grab_element_flag(k.el_info, t)
             k1 == [k EXCEPT !.flags = f.flags, !.kind_flags = kf.flags, !.el_info = el.info]
         IN  kind_flags_loop_skip(k1, Tail(toks))

\* The while (t) loop of the flags callbacks that try object flags, kind
\* flags and element flags: the record it leaves and the tokens from the
\* one it stopped at (<<>>: t ended NULL).
RECURSIVE kind_flags_loop(_, _)
kind_flags_loop(k, toks) ==
    IF toks = <<>> THEN [k |-> k, t |-> <<>>]
    ELSE LET t == Head(toks)
             f == grab_flag(k.flags, list_obj_flag_names, t)
             kf == grab_flag(k.kind_flags, kind_flags, t)
             el == grab_element_flag(k.el_info, t)
             found == ~f.err \/ ~kf.err \/ el.found
             k1 == [k EXCEPT !.flags = f.flags, !.kind_flags = kf.flags, !.el_info = el.info]
         IN  IF ~found THEN [k |-> k1, t |-> toks]
             ELSE kind_flags_loop(k1, Tail(toks))

\* The same loop in the callbacks that try object flags and element flags only.
RECURSIVE obj_flags_loop(_, _)
obj_flags_loop(k, toks) ==
    IF toks = <<>> THEN [k |-> k, t |-> <<>>]
    ELSE LET t == Head(toks)
             f == grab_flag(k.flags, list_obj_flag_names, t)
             el == grab_element_flag(k.el_info, t)
             found == ~f.err \/ el.found
             k1 == [k EXCEPT !.flags = f.flags, !.el_info = el.info]
         IN  IF ~found THEN [k |-> k1, t |-> toks]
             ELSE obj_flags_loop(k1, Tail(toks))

-----------------------------------------------------------------------------
(* Initialize object bases *)

base_zero ==
    [tval |-> 0, name |-> NullStr, num_svals |-> 0, break_perc |-> 0,
     max_stack |-> 0, flags |-> {}, kind_flags |-> {}, el_info |-> el_zero,
     next |-> NullPtr]

\* struct kb_parsedata, zeroed by init_parse_object_base.
kb_parsedata_zero == [defaults |-> base_zero, kb |-> <<>>]

\* A plausible slip: a default reaches the records that exist already.
parse_object_base_defaults_all(w, label, value) ==
    IF label = "break-chance"
    THEN Ok([w EXCEPT !.priv.defaults.break_perc = value,
                      !.priv.kb = [i \in DOMAIN @ |-> [@[i] EXCEPT !.break_perc = value]]])
    ELSE IF label = "max-stack"
    THEN Ok([w EXCEPT !.priv.defaults.max_stack = value,
                      !.priv.kb = [i \in DOMAIN @ |-> [@[i] EXCEPT !.max_stack = value]]])
    ELSE Err("PARSE_ERROR_UNDEFINED_DIRECTIVE", w)

parse_object_base_defaults(w, label, value) ==
    IF label = "break-chance" THEN Ok([w EXCEPT !.priv.defaults.break_perc = value])
    ELSE IF label = "max-stack" THEN Ok([w EXCEPT !.priv.defaults.max_stack = value])
    ELSE Err("PARSE_ERROR_UNDEFINED_DIRECTIVE", w)

\* name is NullStr when the optional field is absent from the line.
parse_object_base_name(w, tval, name) ==
    LET d == w.priv
        kb0 == [d.defaults EXCEPT !.next = IF d.kb = <<>> THEN NullPtr ELSE NodePtr,
                                  !.tval = tval_find_idx(tval)]
        w0 == [w EXCEPT !.priv.kb = <<kb0>> \o d.kb]
    IN  IF kb0.tval = -1 THEN Err("PARSE_ERROR_UNRECOGNISED_TVAL", w0)
        ELSE Ok([w0 EXCEPT !.priv.kb[1].name = IF name # NullStr THEN name ELSE @,
                           !.priv.kb[1].num_svals = 0])

parse_object_base_flags(w, toks) ==
    IF w.priv.kb = <<>> THEN Aborted(w)
    ELSE LET r == kind_flags_loop(w.priv.kb[1], toks)
             w1 == [w EXCEPT !.priv.kb[1] = r.k]
         IN  IF r.t # <<>> THEN Err("PARSE_ERROR_INVALID_FLAG", w1) ELSE Ok(w1)

\* A plausible slip: a row that has been written is not written again.
RECURSIVE object_base_copy_once(_, _, _)
object_base_copy_once(kbs, copied, arr) ==
    IF kbs = <<>> THEN [hang |-> FALSE, rows |-> arr]
    ELSE IF Head(kbs).tval >= TV_MAX THEN [hang |-> copied, rows |-> arr]
    ELSE object_base_copy_once(Tail(kbs), TRUE,
             IF arr[Head(kbs).tval + 1].tval = Head(kbs).tval /\ Head(kbs).tval # 0 THEN arr
             ELSE [arr EXCEPT ![Head(kbs).tval + 1] = [Head(kbs) EXCEPT !.next = NullPtr]])

\* The copy loop of finish_parse_object_base.  Its continue statement skips
\* the assignment of next, so the loop goes on from the stale next: NULL
\* when no record has been copied yet (the loop ends), the skipped record
\* itself otherwise (the loop never ends).
RECURSIVE object_base_copy(_, _, _)
object_base_copy(kbs, copied, arr) ==
    IF kbs = <<>> THEN [hang |-> FALSE, rows |-> arr]
    ELSE IF Head(kbs).tval >= TV_MAX THEN [hang |-> copied, rows |-> arr]
    ELSE object_base_copy(Tail(kbs), TRUE,
             [arr EXCEPT ![Head(kbs).tval + 1] = [Head(kbs) EXCEPT !.next = NullPtr]])

finish_parse_object_base(w) ==
    LET mem == mem_zalloc(TV_MAX, base_zero, 0)
        r == object_base_copy(w.priv.kb, FALSE, mem.rows)
    IN  [hang |-> r.hang,
         w |-> [w EXCEPT !.tables.kb_info = [ptr |-> mem.ptr, rows |-> r.rows],
                         !.priv = <<>>]]

cleanup_object_base(w, ub) ==
    LET t == w.tables.kb_info
    IN  cleanup_table(w, "kb_info", TV_MAX,
            UNION {Strings("kb_info", i, t.rows[i + 1], {"name"}) :
                   i \in RowsUpTo(t, TV_MAX)}, ub)

-----------------------------------------------------------------------------
(* Initialize object curses *)

curse_obj_zero ==
    [flags |-> {}, el_info |-> el_zero, effect |-> <<>>, kind |-> NullPtr, sval |-> 0]

curse_zero ==
    [name |-> NullStr, obj |-> <<>>, poss |-> <<>>, next |-> NullPtr]

parse_curse_name(w, name) ==
    LET curse == [NewNode(curse_zero, w.priv) EXCEPT
                     !.obj = <<curse_obj_zero>>,
                     !.name = name,
                     !.poss = <<[t \in 0..(TV_MAX - 1) |-> FALSE]>>]
    IN  Ok([w EXCEPT !.priv = <<curse>> \o w.priv])

parse_curse_type(w, tval) ==
    LET t == tval_find_idx(tval) IN
    IF w.priv = <<>> THEN Err("PARSE_ERROR_MISSING_RECORD_HEADER", w)
    ELSE IF t < 0 \/ t >= TV_MAX THEN Err("PARSE_ERROR_UNRECOGNISED_TVAL", w)
    ELSE Ok([w EXCEPT !.priv[1].poss[1][t] = TRUE])

parse_curse_flags(w, toks) ==
    IF w.priv = <<>> THEN Aborted(w)
    ELSE LET r == obj_flags_loop(w.priv[1].obj[1], toks)
             w1 == [w EXCEPT !.priv[1].obj[1] = r.k]
         IN  IF r.t # <<>> THEN Err("PARSE_ERROR_INVALID_FLAG", w1) ELSE Ok(w1)

parse_curse_effect(w, eff) ==
    IF w.priv = <<>> THEN Err("PARSE_ERROR_MISSING_RECORD_HEADER", w)
    ELSE LET r == push_effect(w.priv[1].obj[1].effect, eff)
         IN  Err(r.ret, [w EXCEPT !.priv[1].obj[1].effect = r.effects])

parse_curse_effect_yx(w, y, x) ==
    IF w.priv = <<>> THEN Err("PARSE_ERROR_MISSING_RECORD_HEADER", w)
    ELSE Ok([w EXCEPT !.priv[1].obj[1].effect = set_effect_yx(@, y, x)])

parse_curse_dice(w, string) ==
    IF w.priv = <<>> THEN Err("PARSE_ERROR_MISSING_RECORD_HEADER", w)
    ELSE IF w.priv[1].obj[1].effect = <<>> THEN Ok(w)
    ELSE LET r == effect_dice(w.priv[1].obj[1].effect, string)
         IN  Err(r.ret, [w EXCEPT !.priv[1].obj[1].effect = r.effects])

parse_curse_expr(w, name, base, expr) ==
    IF w.priv = <<>> THEN Err("PARSE_ERROR_MISSING_RECORD_HEADER", w)
    ELSE IF w.priv[1].obj[1].effect = <<>> THEN Ok(w)
    ELSE LET r == effect_expr(w.priv[1].obj[1].effect, name,
                              spell_value_base_by_name(base), expr)
         IN  Err(r.ret, [w EXCEPT !.priv[1].obj[1].effect = r.effects,
                                  !.nexpr = @ + r.live])

parse_curse_msg(w, text) ==
    IF w.priv = <<>> THEN Aborted(w)
    ELSE IF w.priv[1].obj[1].effect = <<>> THEN Ok(w)
    ELSE Ok([w EXCEPT !.priv[1].obj[1].effect[1].self_msg = text])

finish_parse_curse(w, p0) ==
    LET max == count_entries(w.priv)
        mem == mem_zalloc(max, curse_zero, p0)
        arr == copy_list(w.priv, max - 1, mem.rows)
    IN  [w EXCEPT !.z_info.curse_max = max,
                  !.tables.curses = [ptr |-> mem.ptr, rows |-> NextNull(arr)],
                  !.priv = <<>>]

cleanup_curse(w, ub) ==
    LET t == w.tables.curses
        max == w.z_info.curse_max
    IN  cleanup_table(w, "curses", max,
            UNION {Strings("curses", i, t.rows[i + 1], {"name"})
                       \cup Subs("curses", i, t.rows[i + 1], {"obj", "poss"}) :
                   i \in RowsUpTo(t, max)}, ub)

\* lookup_curse(name): the index of the curse of that name, z_info->curse_max
\* when the finished table has none.
lookup_curse(w, name) ==
    LET hit == {i \in 0..(w.z_info.curse_max - 1) : w.tables.curses.rows[i + 1].name = name}
    IN  IF hit = {} THEN w.z_info.curse_max
        ELSE CHOOSE i \in hit : \A j \in hit : i <= j

\* A plausible slip: a miss is taken for the last row of the table.
find_code_clamped(rows, max, s) ==
    LET hit == {i \in 0..(max - 1) : rows[i + 1].code = s}
    IN  IF hit = {} THEN max - 1 ELSE CHOOSE i \in hit : \A j \in hit : i <= j

\* The for loop of the slay and brand directives: the first index whose code
\* is s, max when the loop runs off the end.
find_code(rows, max, s) ==
    LET hit == {i \in 0..(max - 1) : rows[i + 1].code = s}
    IN  IF hit = {} THEN max ELSE CHOOSE i \in hit : \A j \in hit : i <= j

\* x->slays / x->brands after "if (!x->slays) x->slays = mem_zalloc(max *
\* sizeof(bool)); x->slays[i] = true".
SetBool(arr, max, i) ==
    LET a == IF arr = <<>> THEN [j \in 0..(max - 1) |-> FALSE] ELSE arr[1]
    IN  <<[a EXCEPT ![i] = TRUE]>>

\* x->curses after "if (!x->curses) x->curses = mem_zalloc(max * sizeof(int));
\* x->curses[i] = power".
SetInt(arr, max, i, power) ==
    LET a == IF arr = <<>> THEN [j \in 0..(max - 1) |-> 0] ELSE arr[1]
    IN  <<[a EXCEPT ![i] = power]>>

-----------------------------------------------------------------------------
(* Initialize object kinds *)

object_zero ==
    [name |-> NullStr, kidx |-> 0, tval |-> 0, sval |-> 0, base |-> NullPtr,
     level |-> 0, weight |-> 0, cost |-> 0, d_char |-> NullStr, d_attr |-> 0,
     flags |-> {}, kind_flags |-> {}, el_info |-> el_zero,
     effect |-> <<>>, activation |-> NullPtr,
     slays |-> <<>>, brands |-> <<>>, curses |-> <<>>, next |-> NullPtr]

\* What a pointer read from outside any allocation may hold.
WildPtr == <<"wild", 0>>

\* The while (act) loop of findact from act on.
RECURSIVE findact_from(_, _, _)
findact_from(rows, act, act_name) ==
    IF act = NullPtr THEN NullPtr
    ELSE IF rows[act[2] + 1].name = act_name THEN act
    ELSE findact_from(rows, rows[act[2] + 1].next, act_name)

\* A plausible slip: the newest activation of that name is found.
findact_last(w, act_name, junk) ==
    LET t == w.tables.activations
        hit == {i \in 0..(w.z_info.act_max - 1) : t.rows[i + 1].name = act_name}
    IN  IF hit = {} THEN NullPtr
        ELSE ElemPtr("activations", CHOOSE i \in hit : \A j \in hit : j <= i)

\* findact(act_name).  An activation table of no rows that is not NULL has
\* nothing to read: what the loop finds there is junk.
findact(w, act_name, junk) ==
    LET t == w.tables.activations
    IN  IF t.ptr = 0 THEN NullPtr
        ELSE IF t.rows = <<>> THEN (IF junk = 0 THEN NullPtr ELSE WildPtr)
        ELSE findact_from(t.rows, ElemPtr("activations", 0), act_name)

\* findact reads outside the activation table.
findact_overruns(w) ==
    w.tables.activations.ptr # 0 /\ w.tables.activations.rows = <<>>

parse_object_name(w, name) ==
    LET k == [NewNode(object_zero, w.priv) EXCEPT !.name = name]
    IN  Ok([w EXCEPT !.priv = <<k>> \o w.priv])

\* A plausible slip: the sval is taken from the counter of the base, and the
\* counter is left where it was.
parse_object_type_uncounted(w, sym) ==
    LET tval == tval_find_idx(sym) IN
    IF w.priv = <<>> THEN Aborted(w)
    ELSE IF tval < 0 THEN Err("PARSE_ERROR_UNRECOGNISED_TVAL", w)
    ELSE LET n == w.tables.kb_info.rows[tval + 1].num_svals + 1
         IN  Ok([w EXCEPT !.priv[1].tval = tval,
                          !.priv[1].base = ElemPtr("kb_info", tval),
                          !.priv[1].sval = n])

parse_object_type(w, sym) ==
    LET tval == tval_find_idx(sym) IN
    IF w.priv = <<>> THEN Aborted(w)
    ELSE IF tval < 0 THEN Err("PARSE_ERROR_UNRECOGNISED_TVAL", w)
    ELSE LET n == w.tables.kb_info.rows[tval + 1].num_svals + 1
         IN  Ok([w EXCEPT !.priv[1].tval = tval,
                          !.priv[1].base = ElemPtr("kb_info", tval),
                          !.tables.kb_info.rows[tval + 1].num_svals = n,
                          !.priv[1].sval = n])

parse_object_level(w, level) ==
    IF w.priv = <<>> THEN Aborted(w)
    ELSE Ok([w EXCEPT !.priv[1].level = level])

parse_object_weight(w, weight) ==
    IF w.priv = <<>> THEN Aborted(w)
    ELSE Ok([w EXCEPT !.priv[1].weight = weight])

parse_object_cost(w, cost) ==
    IF w.priv = <<>> THEN Aborted(w)
    ELSE Ok([w EXCEPT !.priv[1].cost = cost])

parse_object_flags(w, toks) ==
    IF w.priv = <<>> THEN Aborted(w)
    ELSE LET r == kind_flags_loop(w.priv[1], toks)
             w1 == [w EXCEPT !.priv[1] = r.k]
         IN  IF r.t # <<>> THEN Err("PARSE_ERROR_INVALID_FLAG", w1) ELSE Ok(w1)

parse_object_effect(w, eff) ==
    IF w.priv = <<>> THEN Err("PARSE_ERROR_MISSING_RECORD_HEADER", w)
    ELSE LET r == push_effect(w.priv[1].effect, eff)
         IN  Err(r.ret, [w EXCEPT !.priv[1].effect = r.effects])

parse_object_effect_yx(w, y, x) ==
    IF w.priv = <<>> THEN Err("PARSE_ERROR_MISSING_RECORD_HEADER", w)
    ELSE Ok([w EXCEPT !.priv[1].effect = set_effect_yx(@, y, x)])

parse_object_dice(w, string) ==
    IF w.priv = <<>> THEN Err("PARSE_ERROR_MISSING_RECORD_HEADER", w)
    ELSE IF w.priv[1].effect = <<>> THEN Ok(w)
    ELSE LET r == effect_dice(w.priv[1].effect, string)
         IN  Err(r.ret, [w EXCEPT !.priv[1].effect = r.effects])

parse_object_expr(w, name, base, expr) ==
    IF w.priv = <<>> THEN Err("PARSE_ERROR_MISSING_RECORD_HEADER", w)
    ELSE IF w.priv[1].effect = <<>> THEN Ok(w)
    ELSE LET r == effect_expr(w.priv[1].effect, name, spell_value_base_by_name(base), expr)
         IN  Err(r.ret, [w EXCEPT !.priv[1].effect = r.effects,
                                  !.nexpr = @ + r.live])

\* A plausible slip: a message for an effect that is not there is an error.
parse_object_msg_self_strict(w, msg) ==
    IF w.priv = <<>> \/ w.priv[1].effect = <<>>
    THEN Err("PARSE_ERROR_MISSING_RECORD_HEADER", w)
    ELSE Ok([w EXCEPT !.priv[1].effect[1].self_msg = msg])

parse_object_msg_self(w, msg) ==
    IF w.priv = <<>> THEN Err("PARSE_ERROR_MISSING_RECORD_HEADER", w)
    ELSE IF w.priv[1].effect = <<>> THEN Ok(w)
    ELSE Ok([w EXCEPT !.priv[1].effect[1].self_msg = msg])

parse_object_msg_other(w, msg) ==
    IF w.priv = <<>> THEN Err("PARSE_ERROR_MISSING_RECORD_HEADER", w)
    ELSE IF w.priv[1].effect = <<>> THEN Ok(w)
    ELSE Ok([w EXCEPT !.priv[1].effect[1].other_msg = msg])

parse_object_act(w, name, ub, junk) ==
    IF w.priv = <<>> THEN Err("PARSE_ERROR_MISSING_RECORD_HEADER", w)
    ELSE IF findact_overruns(w) /\ ub = "crash" THEN Crashed(w)
    ELSE Ok([w EXCEPT !.priv[1].activation = findact(w, name, junk)])

parse_object_slay(w, s) ==
    LET max == w.z_info.slay_max
        i == find_code(w.tables.slays.rows, max, s)
    IN  IF w.priv = <<>> THEN Aborted(w)
        ELSE IF i = max THEN Err("PARSE_ERROR_UNRECOGNISED_SLAY", w)
        ELSE Ok([w EXCEPT !.priv[1].slays = SetBool(@, max, i)])

parse_object_brand(w, s) ==
    LET max == w.z_info.brand_max
        i == find_code(w.tables.brands.rows, max, s)
    IN  IF w.priv = <<>> THEN Aborted(w)
        ELSE IF i = max THEN Err("PARSE_ERROR_UNRECOGNISED_BRAND", w)
        ELSE Ok([w EXCEPT !.priv[1].brands = SetBool(@, max, i)])

parse_object_curse(w, s, power) ==
    LET max == w.z_info.curse_max
        i == lookup_curse(w, s)
    IN  IF w.priv = <<>> THEN Aborted(w)
        ELSE IF i = max THEN Err("PARSE_ERROR_UNRECOGNISED_CURSE", w)
        ELSE Ok([w EXCEPT !.priv[1].curses = SetInt(@, max, i, power)])

\* A plausible slip: the count goes on from what z_info holds.
reset_and_count_onto(old, list) == old + count_entries(list)

\* z_info->k_max = 0; while (k) { z_info->k_max++; k = k->next; }
reset_and_count(old, list) == 0 + count_entries(list)

finish_parse_object(w, p0) ==
    LET max == reset_and_count(w.z_info.k_max, w.priv)
        mem == mem_zalloc(max, object_zero, p0)
        arr == copy_list(w.priv, max - 1, mem.rows)
        kb == w.tables.kb_info.rows
        idx == [i \in DOMAIN arr |->
                   [arr[i] EXCEPT !.kidx = i - 1,
                                  !.kind_flags = @ \cup kb[arr[i].tval + 1].kind_flags]]
    IN  [w EXCEPT !.z_info.k_max = max,
                  !.tables.k_info = [ptr |-> mem.ptr, rows |-> NextChain("k_info", idx, max)],
                  !.priv = <<>>]

cleanup_object(w, ub) ==
    LET t == w.tables.k_info
        max == w.z_info.k_max
    IN  cleanup_table(w, "k_info", max,
            UNION {Strings("k_info", i, t.rows[i + 1], {"name"})
                       \cup Subs("k_info", i, t.rows[i + 1], {"brands", "slays", "curses"}) :
                   i \in RowsUpTo(t, max)}, ub)

-----------------------------------------------------------------------------
(* Looking object kinds up *)

\* format("& %s~", name): the kind name of a synthetic record.
format_dummy_name(name) ==
    CASE name = "Phial" -> "& Phial~"
      [] name = "Star" -> "& Star~"
      [] name = "Dagger" -> "& Dagger~"
      [] name = "7" -> "& 7~"
      [] name = "1" -> "& 1~"
      [] OTHER -> name

\* obj_desc_name_format(): the kind name without its article and plural marks.
obj_desc_name_format(kname) ==
    CASE kname = "& Phial~" -> "Phial"
      [] kname = "& Star~" -> "Star"
      [] kname = "& Dagger~" -> "Dagger"
      [] kname = "& Torch~" -> "Torch"
      [] kname = "& 7~" -> "7"
      [] kname = "& 1~" -> "1"
      [] OTHER -> kname

\* lookup_sval / lookup_sval_silent: a numeric name is its own value; any
\* other name is searched among the kinds of the tval; -1 when none has it.
lookup_sval(w, tval, name) ==
    LET rows == w.tables.k_info.rows
        hit == {k \in 0..(w.z_info.k_max - 1) :
                   /\ rows[k + 1].name # NullStr
                   /\ rows[k + 1].tval = tval
                   /\ obj_desc_name_format(rows[k + 1].name) = name}
    IN  IF scan_uint(name) >= 0 THEN scan_uint(name)
        ELSE IF hit = {} THEN -1
        ELSE rows[(CHOOSE k \in hit : \A j \in hit : k <= j) + 1].sval

\* lookup_kind: the index of the first kind with that tval and sval, -1
\* standing for the NULL it returns when there is none.
lookup_kind(w, tval, sval) ==
    LET rows == w.tables.k_info.rows
        hit == {k \in 0..(w.z_info.k_max - 1) :
                   rows[k + 1].tval = tval /\ rows[k + 1].sval = sval}
    IN  IF hit = {} THEN -1 ELSE CHOOSE k \in hit : \A j \in hit : k <= j

KindPtr(k) == IF k < 0 THEN NullPtr ELSE ElemPtr("k_info", k)

-----------------------------------------------------------------------------
(* Initialize ego items *)

\* The numerals sscanf(tmp, "%d to %d", ...) converts in the strings read:
\* two when the string has the form "N to M", fewer when it stops short.
Numerals(tmp) ==
    CASE tmp = "1 to 5" -> <<"1", "5">>
      [] tmp = "0 to 300" -> <<"0", "300">>
      [] tmp = "-1 to 5" -> <<"-1", "5">>
      [] tmp = "4294967296 to 5" -> <<"4294967296", "5">>
      [] tmp = "3 to" -> <<"3">>
      [] OTHER -> <<>>

\* What %d stores for a numeral.  For one an int cannot hold, the conversion
\* is undefined: a C library that converts through a 64-bit long and keeps
\* the low 32 bits stores 0 for 2^32, one that converts through a 32-bit long
\* stores INT_MAX, 2147483647; low tells which the build does.
scan_int(numeral, low) ==
    CASE numeral = "-1" -> -1
      [] numeral = "0" -> 0
      [] numeral = "1" -> 1
      [] numeral = "3" -> 3
      [] numeral = "5" -> 5
      [] numeral = "300" -> 300
      [] numeral = "4294967296" -> IF low = 0 THEN 0 ELSE 2147483647

\* sscanf(tmp, "%d to %d", &amin, &amax): the count of conversions and the
\* two integers (an integer not converted is not read by the callers).
sscanf_range(tmp, low) ==
    LET ns == Numerals(tmp)
    IN  [count |-> Len(ns),
         amin |-> IF Len(ns) >= 1 THEN scan_int(ns[1], low) ELSE 0,
         amax |-> IF Len(ns) >= 2 THEN scan_int(ns[2], low) ELSE 0]

\* The lines of the alloc callbacks of ego_item.txt and artifact.txt from
\* the assignment of alloc_prob on, for the record on top of the list.
store_alloc(w, common, tmp, low) ==
    LET r == sscanf_range(tmp, low)
        w1 == [w EXCEPT !.priv[1].alloc_prob = common]
    IN  IF r.count # 2 THEN Err("PARSE_ERROR_INVALID_ALLOCATION", w1)
        ELSE IF r.amin > 255 \/ r.amax > 255 \/ r.amin < 0 \/ r.amax < 0
        THEN Err("PARSE_ERROR_OUT_OF_BOUNDS", w1)
        ELSE Ok([w1 EXCEPT !.priv[1].alloc_min = r.amin, !.priv[1].alloc_max = r.amax])

\* e is not tested: without a record the first assignment writes through NULL.
parse_ego_alloc(w, common, tmp, low) ==
    IF w.priv = <<>> THEN Crashed(w) ELSE store_alloc(w, common, tmp, low)

ego_zero ==
    [name |-> NullStr, eidx |-> 0, rating |-> 0, activation |-> NullPtr,
     flags |-> {}, kind_flags |-> {}, el_info |-> el_zero,
     slays |-> <<>>, brands |-> <<>>, curses |-> <<>>, poss_items |-> <<>>,
     next |-> NullPtr, alloc_prob |-> 0, alloc_min |-> 0, alloc_max |-> 0]

parse_ego_name(w, name) ==
    LET e == [NewNode(ego_zero, w.priv) EXCEPT !.name = name]
    IN  Ok([w EXCEPT !.priv = <<e>> \o w.priv])

parse_ego_info(w, rating) ==
    IF w.priv = <<>> THEN Err("PARSE_ERROR_MISSING_RECORD_HEADER", w)
    ELSE Ok([w EXCEPT !.priv[1].rating = rating])

\* A plausible slip: the loop stops at the first kind of the tval.
push_kinds_first(rows, i, tval, poss) ==
    LET hit == {j \in i..Len(rows) : rows[j].tval = tval}
    IN  IF hit = {} THEN poss
        ELSE <<(CHOOSE j \in hit : \A h \in hit : j <= h) - 1>> \o poss

\* The kinds of one tval, each pushed in front of the list in index order.
RECURSIVE push_kinds(_, _, _, _)
push_kinds(rows, i, tval, poss) ==
    IF i > Len(rows) THEN poss
    ELSE push_kinds(rows, i + 1, tval,
                    IF rows[i].tval # tval THEN poss ELSE <<i - 1>> \o poss)

parse_ego_type(w, sym) ==
    LET tval == tval_find_idx(sym) IN
    IF w.priv = <<>> THEN Err("PARSE_ERROR_MISSING_RECORD_HEADER", w)
    ELSE IF tval < 0 THEN Err("PARSE_ERROR_UNRECOGNISED_TVAL", w)
    ELSE LET rows == SubSeq(w.tables.k_info.rows, 1, w.z_info.k_max)
             poss == push_kinds(rows, 1, tval, w.priv[1].poss_items)
             w1 == [w EXCEPT !.priv[1].poss_items = poss]
         IN  IF \A i \in DOMAIN rows : rows[i].tval # tval
             THEN Err("PARSE_ERROR_NO_KIND_FOR_EGO_TYPE", w1)
             ELSE Ok(w1)

\* poss->kidx = lookup_kind(tval, sval)->kidx.  lookup_kind returns NULL when
\* no kind has the pair, and reading through it is undefined: the process
\* dies (ub = "crash") or the read yields whatever lies there (junk).
kind_kidx(w, tval, sval, junk) ==
    LET k == lookup_kind(w, tval, sval)
    IN  IF k < 0 THEN junk ELSE w.tables.k_info.rows[k + 1].kidx

\* poss->next = x->poss_items; x->poss_items = poss.
link_poss(poss_items, kidx) == <<kidx>> \o poss_items

parse_ego_item(w, sym, sval_name, ub, junk) ==
    LET tval == tval_find_idx(sym)
        sval == lookup_sval(w, tval, sval_name)
        kidx == kind_kidx(w, tval, sval, junk)
        w1 == [w EXCEPT !.priv[1].poss_items = link_poss(@, kidx)]
    IN  IF w.priv = <<>> THEN Err("PARSE_ERROR_MISSING_RECORD_HEADER", w)
        ELSE IF tval < 0 THEN Err("PARSE_ERROR_UNRECOGNISED_TVAL", w)
        ELSE IF lookup_kind(w, tval, sval) < 0 /\ ub = "crash" THEN Crashed(w)
        ELSE IF kidx <= 0 THEN Err("PARSE_ERROR_INVALID_ITEM_NUMBER", w1)
        ELSE Ok(w1)

\* flags is <<>> both for an empty string and for an absent optional field.
parse_ego_flags(w, toks) ==
    IF w.priv = <<>> THEN Err("PARSE_ERROR_MISSING_RECORD_HEADER", w)
    ELSE LET r == kind_flags_loop(w.priv[1], toks)
             w1 == [w EXCEPT !.priv[1] = r.k]
         IN  IF r.t # <<>> THEN Err("PARSE_ERROR_INVALID_FLAG", w1) ELSE Ok(w1)

parse_ego_act(w, name, ub, junk) ==
    IF w.priv = <<>> THEN Err("PARSE_ERROR_MISSING_RECORD_HEADER", w)
    ELSE IF findact_overruns(w) /\ ub = "crash" THEN Crashed(w)
    ELSE Ok([w EXCEPT !.priv[1].activation = findact(w, name, junk)])

parse_ego_slay(w, s) ==
    LET max == w.z_info.slay_max
        i == find_code(w.tables.slays.rows, max, s)
    IN  IF w.priv = <<>> THEN Err("PARSE_ERROR_MISSING_RECORD_HEADER", w)
        ELSE IF i = max THEN Err("PARSE_ERROR_UNRECOGNISED_SLAY", w)
        ELSE Ok([w EXCEPT !.priv[1].slays = SetBool(@, max, i)])

parse_ego_brand(w, s) ==
    LET max == w.z_info.brand_max
        i == find_code(w.tables.brands.rows, max, s)
    IN  IF w.priv = <<>> THEN Err("PARSE_ERROR_MISSING_RECORD_HEADER", w)
        ELSE IF i = max THEN Err("PARSE_ERROR_UNRECOGNISED_BRAND", w)
        ELSE Ok([w EXCEPT !.priv[1].brands = SetBool(@, max, i)])

parse_ego_curse(w, s, power) ==
    LET max == w.z_info.curse_max
        i == lookup_curse(w, s)
    IN  IF w.priv = <<>> THEN Aborted(w)
        ELSE IF i = max THEN Err("PARSE_ERROR_UNRECOGNISED_CURSE", w)
        ELSE Ok([w EXCEPT !.priv[1].curses = SetInt(@, max, i, power)])

finish_parse_ego(w, p0) ==
    LET max == count_entries(w.priv)
        mem == mem_zalloc(max, ego_zero, p0)
        arr == copy_list(w.priv, max - 1, mem.rows)
        idx == [i \in DOMAIN arr |-> [arr[i] EXCEPT !.eidx = i - 1]]
    IN  [w EXCEPT !.z_info.e_max = max,
                  !.tables.e_info = [ptr |-> mem.ptr, rows |-> NextChain("e_info", idx, max)],
                  !.priv = <<>>]

cleanup_ego(w, ub) ==
    LET t == w.tables.e_info
        max == w.z_info.e_max
    IN  cleanup_table(w, "e_info", max,
            UNION {Strings("e_info", i, t.rows[i + 1], {"name"})
                       \cup Subs("e_info", i, t.rows[i + 1],
                                 {"brands", "slays", "curses", "poss_items"}) :
                   i \in RowsUpTo(t, max)}, ub)

-----------------------------------------------------------------------------
(* Initialize object power calculations *)

calc_zero ==
    [name |-> NullStr, iterate |-> [property_type |-> 0, max |-> 0],
     dice |-> <<>>, poss_items |-> <<>>, next |-> NullPtr]

parse_object_power_name(w, name) ==
    LET c == [NewNode(calc_zero, w.priv) EXCEPT
                 !.name = name,
                 !.iterate = [property_type |-> 0, max |-> 1]]
    IN  Ok([w EXCEPT !.priv = <<c>> \o w.priv])

parse_object_power_type(w, sym) ==
    LET tval == tval_find_idx(sym) IN
    IF w.priv = <<>> THEN Err("PARSE_ERROR_MISSING_RECORD_HEADER", w)
    ELSE IF tval < 0 THEN Err("PARSE_ERROR_UNRECOGNISED_TVAL", w)
    ELSE LET rows == SubSeq(w.tables.k_info.rows, 1, w.z_info.k_max)
         IN  Ok([w EXCEPT !.priv[1].poss_items = push_kinds(rows, 1, tval, @)])

parse_object_power_item(w, sym, sval_name, ub, junk) ==
    LET tval == tval_find_idx(sym)
        sval == lookup_sval(w, tval, sval_name)
        kidx == kind_kidx(w, tval, sval, junk)
        w1 == [w EXCEPT !.priv[1].poss_items = link_poss(@, kidx)]
    IN  IF w.priv = <<>> THEN Err("PARSE_ERROR_MISSING_RECORD_HEADER", w)
        ELSE IF tval < 0 THEN Err("PARSE_ERROR_UNRECOGNISED_TVAL", w)
        ELSE IF lookup_kind(w, tval, sval) < 0 /\ ub = "crash" THEN Crashed(w)
        ELSE IF kidx <= 0 THEN Err("PARSE_ERROR_INVALID_ITEM_NUMBER", w1)
        ELSE Ok(w1)

parse_object_power_dice(w, string) ==
    IF w.priv = <<>> THEN Err("PARSE_ERROR_MISSING_RECORD_HEADER", w)
    ELSE LET r == set_dice(w.priv[1].dice, string)
         IN  Err(r.ret, [w EXCEPT !.priv[1].dice = r.dice])

parse_object_power_expr(w, name, base, expr) ==
    IF w.priv = <<>> THEN Err("PARSE_ERROR_MISSING_RECORD_HEADER", w)
    ELSE IF w.priv[1].dice = <<>> THEN Ok(w)
    ELSE LET r == bind_expr(w.priv[1].dice, name, power_calculation_by_name(base), expr)
         IN  Err(r.ret, [w EXCEPT !.priv[1].dice = r.dice, !.nexpr = @ + r.live])

finish_parse_object_power(w, p0) ==
    LET max == count_entries(w.priv)
        mem == mem_zalloc(max, calc_zero, p0)
        arr == copy_list(w.priv, max - 1, mem.rows)
    IN  [w EXCEPT !.z_info.calculation_max = max,
                  !.tables.calculations = [ptr |-> mem.ptr, rows |-> NextNull(arr)],
                  !.priv = <<>>]

cleanup_object_power(w, ub) ==
    LET t == w.tables.calculations
        max == w.z_info.calculation_max
    IN  cleanup_table(w, "calculations", max,
            UNION {Strings("calculations", i, t.rows[i + 1], {"name"})
                       \cup Subs("calculations", i, t.rows[i + 1], {"poss_items"}) :
                   i \in RowsUpTo(t, max)}, ub)

-----------------------------------------------------------------------------
(* Initialize artifacts *)

artifact_zero ==
    [name |-> NullStr, aidx |-> 0, tval |-> 0, sval |-> 0, level |-> 0, weight |-> 0,
     activation |-> NullPtr,
     flags |-> {}, el_info |-> el_zero,
     slays |-> <<>>, brands |-> <<>>, curses |-> <<>>, next |-> NullPtr,
     alloc_prob |-> 0, alloc_min |-> 0, alloc_max |-> 0]

\* The elements from ELEM_BASE_MIN up to ELEM_HIGH_MIN.
base_elements == {i \in DOMAIN el_zero : list_element_names[i + 1] = "ACID"}

parse_artifact_name(w, name) ==
    LET a == [NewNode(artifact_zero, w.priv) EXCEPT
                 !.name = name,
                 !.el_info = [i \in DOMAIN el_zero |->
                                 IF i \in base_elements
                                 THEN [el_zero[i] EXCEPT !.flags = @ \cup {"EL_INFO_IGNORE"}]
                                 ELSE el_zero[i]]]
    IN  Ok([w EXCEPT !.priv = <<a>> \o w.priv])

\* A plausible slip: the artifact is handed the index of the new row.
dummy_sval_for_artifact_kidx(dummy) == dummy.kidx

\* "Copy the sval to the artifact info": the value art->sval receives.
dummy_sval_for_artifact(dummy) == dummy.sval

\* A plausible slip: the new kind is not registered as INSTA_ART.
dummy_defaults_plain(dummy) == [dummy EXCEPT !.level = -1, !.weight = -1]

\* The tail of write_dummy_object_record: the default glyph and colour
\* (COLOUR_RED), nonsense level and weight, and the INSTA_ART flag.
dummy_defaults(dummy) ==
    [dummy EXCEPT !.d_char = "*", !.d_attr = 4, !.level = -1, !.weight = -1,
                  !.kind_flags = @ \cup {KF_INSTA_ART}]

\* A plausible slip: the new kind is numbered by the count of kinds.
dummy_kidx_count(k_max) == k_max

\* dummy->kidx = z_info->k_max - 1, k_max counting the new kind.
dummy_kidx(k_max) == k_max - 1

\* mem_realloc is taken to succeed.
write_dummy_object_record(w, name) ==
    LET art == w.priv[1]
        k_max == w.z_info.k_max + 1
        dummy0 == [object_zero EXCEPT !.tval = art.tval,
                                      !.base = ElemPtr("kb_info", art.tval),
                                      !.name = format_dummy_name(name),
                                      !.kidx = dummy_kidx(k_max)]
        kb == w.tables.kb_info.rows
        hit == {i \in 0..(TV_MAX - 1) : kb[i + 1].tval = dummy0.tval}
        i == CHOOSE j \in hit : \A h \in hit : j <= h
        n == kb[i + 1].num_svals + 1
        dummy1 == [dummy0 EXCEPT !.sval = n]
        grown(d) == [w EXCEPT !.z_info.k_max = k_max,
                              !.tables.k_info =
                                  [ptr |-> 1,
                                   rows |-> Append(SubSeq(@.rows, 1, k_max - 1), d)]]
    IN  IF hit = {} THEN Err("PARSE_ERROR_INTERNAL", grown(dummy0))
        ELSE Ok([grown(dummy_defaults(dummy1)) EXCEPT
                    !.tables.kb_info.rows[i + 1].num_svals = n,
                    !.priv[1].sval = dummy_sval_for_artifact(dummy1)])

parse_artifact_base_object(w, sym, sval_name) ==
    LET tval == tval_find_idx(sym)
        w1 == [w EXCEPT !.priv[1].tval = tval]
        sval == lookup_sval(w1, tval, sval_name)
    IN  IF w.priv = <<>> THEN Aborted(w)
        ELSE IF tval < 0 THEN Err("PARSE_ERROR_UNRECOGNISED_TVAL", w)
        ELSE IF sval < 0 THEN write_dummy_object_record(w1, sval_name)
        ELSE Ok([w1 EXCEPT !.priv[1].sval = sval])

\* A plausible slip: the level of the kind is overwritten whatever it holds.
parse_artifact_level_always(w, level) ==
    IF w.priv = <<>> THEN Aborted(w)
    ELSE LET k == lookup_kind(w, w.priv[1].tval, w.priv[1].sval)
         IN  IF k < 0 THEN Aborted(w)
             ELSE Ok([w EXCEPT !.priv[1].level = level,
                               !.tables.k_info.rows[k + 1].level = level])

parse_artifact_alloc(w, common, tmp, low) ==
    IF w.priv = <<>> THEN Aborted(w) ELSE store_alloc(w, common, tmp, low)

parse_artifact_level(w, level) ==
    IF w.priv = <<>> THEN Aborted(w)
    ELSE LET k == lookup_kind(w, w.priv[1].tval, w.priv[1].sval)
             w1 == [w EXCEPT !.priv[1].level = level]
         IN  IF k < 0 THEN Aborted(w)
             ELSE IF w.tables.k_info.rows[k + 1].level = -1
             THEN Ok([w1 EXCEPT !.tables.k_info.rows[k + 1].level = level])
             ELSE Ok(w1)

parse_artifact_weight(w, weight) ==
    IF w.priv = <<>> THEN Aborted(w)
    ELSE LET k == lookup_kind(w, w.priv[1].tval, w.priv[1].sval)
             w1 == [w EXCEPT !.priv[1].weight = weight]
         IN  IF k < 0 THEN Aborted(w)
             ELSE IF w.tables.k_info.rows[k + 1].weight = -1
             THEN Ok([w1 EXCEPT !.tables.k_info.rows[k + 1].weight = weight])
             ELSE Ok(w1)

\* color_char_to_attr / color_text_to_attr: the colour index a letter or a
\* colour name stands for, red being 4 and white 1.
color_to_attr(color) ==
    CASE color \in {"r", "Red"} -> 4
      [] color \in {"w", "White"} -> 1
      [] OTHER -> 0

\* The artifact is read before my_assert(a) looks at it: with no record
\* the read is through NULL, and the assertion fails if the read returns.
parse_artifact_graphics(w, glyph, color, ub) ==
    IF w.priv = <<>> THEN (IF ub = "crash" THEN Crashed(w) ELSE Aborted(w))
    ELSE LET k == lookup_kind(w, w.priv[1].tval, w.priv[1].sval)
         IN  IF k < 0 THEN Aborted(w)
             ELSE IF KF_INSTA_ART \notin w.tables.k_info.rows[k + 1].kind_flags
             THEN Err("PARSE_ERROR_NOT_SPECIAL_ARTIFACT", w)
             ELSE Ok([w EXCEPT !.tables.k_info.rows[k + 1].d_char = glyph,
                               !.tables.k_info.rows[k + 1].d_attr = color_to_attr(color)])

TV_LIGHT == tval_find_idx("light")

\* "Special light activations are a property of the base object": the kind
\* lookup_kind returns is written to unchecked, through NULL when no kind
\* has the artifact's tval and sval.
parse_artifact_act(w, name, ub, junk) ==
    IF w.priv = <<>> THEN Err("PARSE_ERROR_MISSING_RECORD_HEADER", w)
    ELSE IF findact_overruns(w) /\ ub = "crash" THEN Crashed(w)
    ELSE IF w.priv[1].tval = TV_LIGHT
    THEN LET k == lookup_kind(w, w.priv[1].tval, w.priv[1].sval)
         IN  IF k < 0 THEN (IF ub = "crash" THEN Crashed(w) ELSE Ok(w))
             ELSE Ok([w EXCEPT !.tables.k_info.rows[k + 1].activation =
                                   findact(w, name, junk)])
    ELSE Ok([w EXCEPT !.priv[1].activation = findact(w, name, junk)])

parse_artifact_flags(w, toks) ==
    IF w.priv = <<>> THEN Aborted(w)
    ELSE LET r == obj_flags_loop(w.priv[1], toks)
             w1 == [w EXCEPT !.priv[1] = r.k]
         IN  IF r.t # <<>> THEN Err("PARSE_ERROR_INVALID_FLAG", w1) ELSE Ok(w1)

parse_artifact_slay(w, s) ==
    LET max == w.z_info.slay_max
        i == find_code(w.tables.slays.rows, max, s)
    IN  IF w.priv = <<>> THEN Aborted(w)
        ELSE IF i = max THEN Err("PARSE_ERROR_UNRECOGNISED_SLAY", w)
        ELSE Ok([w EXCEPT !.priv[1].slays = SetBool(@, max, i)])

parse_artifact_brand(w, s) ==
    LET max == w.z_info.brand_max
        i == find_code(w.tables.brands.rows, max, s)
    IN  IF w.priv = <<>> THEN Aborted(w)
        ELSE IF i = max THEN Err("PARSE_ERROR_UNRECOGNISED_BRAND", w)
        ELSE Ok([w EXCEPT !.priv[1].brands = SetBool(@, max, i)])

parse_artifact_curse(w, s, power) ==
    LET max == w.z_info.curse_max
        i == lookup_curse(w, s)
    IN  IF w.priv = <<>> THEN Aborted(w)
        ELSE IF i = max THEN Err("PARSE_ERROR_UNRECOGNISED_CURSE", w)
        ELSE Ok([w EXCEPT !.priv[1].curses = SetInt(@, max, i, power)])

\* A plausible slip: the finished curse rows are left as their finish made them.
write_curse_kinds_none(w, curse_object_kind) == w

\* "Fill in curse object info now that curse_object_kind is defined".
write_curse_kinds(w, curse_object_kind) ==
    LET none == tval_find_idx("none")
        sval == lookup_sval(w, none, "<curse object>")
    IN  [w EXCEPT !.tables.curses.rows =
            [i \in DOMAIN @ |->
                IF i <= w.z_info.curse_max /\ @[i].obj # <<>>
                THEN [@[i] EXCEPT !.obj[1].kind = curse_object_kind, !.obj[1].sval = sval]
                ELSE @[i]]]

\* The empty shelves for Rings of Power that follow the artifacts read.
ShelvesForRings == 9

\* A plausible slip: the shelves are numbered from zero.
number_shelves_from_zero(arr, max) ==
    [i \in DOMAIN arr |-> IF i > max THEN [arr[i] EXCEPT !.aidx = i - 1 - max] ELSE arr[i]]

\* for (i = a_max; i < a_max + 9; i++) a_info[i].aidx = i
number_shelves(arr, max) ==
    [i \in DOMAIN arr |-> IF i > max THEN [arr[i] EXCEPT !.aidx = i - 1] ELSE arr[i]]

finish_parse_artifact(w) ==
    LET max == count_entries(w.priv)
        mem == mem_zalloc(max + ShelvesForRings, artifact_zero, 0)
        arr == copy_list(w.priv, max - 1, mem.rows)
        own == [i \in DOMAIN arr |->
                   IF i <= max THEN [arr[i] EXCEPT !.aidx = i - 1] ELSE arr[i]]
        idx == number_shelves(own, max)
        none == tval_find_idx("none")
        special(name) == KindPtr(lookup_kind(w, none, lookup_sval(w, none, name)))
        w1 == [w EXCEPT !.z_info.a_max = max,
                        !.tables.a_info =
                            [ptr |-> mem.ptr, rows |-> NextChain("a_info", idx, max)],
                        !.tables.kinds =
                            [unknown_item_kind |-> special("<unknown item>"),
                             unknown_gold_kind |-> special("<unknown treasure>"),
                             pile_kind |-> special("<pile>"),
                             curse_object_kind |-> special("<curse object>")],
                        !.priv = <<>>]
    IN  write_curse_kinds(w1, w1.tables.kinds.curse_object_kind)

cleanup_artifact(w, ub) ==
    LET t == w.tables.a_info
        max == w.z_info.a_max
    IN  cleanup_table(w, "a_info", max,
            UNION {Strings("a_info", i, t.rows[i + 1], {"name"})
                       \cup Subs("a_info", i, t.rows[i + 1], {"brands", "slays", "curses"}) :
                   i \in RowsUpTo(t, max)}, ub)

-----------------------------------------------------------------------------
(* The grammars: which callback each directive of each file is registered to *)

Undefined(w) == Err("PARSE_ERROR_UNDEFINED_DIRECTIVE", w)

init_parse_projection(w, dir) ==
    CASE dir.d = "code" -> parse_projection_code(w, dir.s1)
      [] dir.d = "name" -> parse_projection_name(w, dir.s1)
      [] OTHER -> Undefined(w)

init_parse_object_base(w, dir) ==
    CASE dir.d = "default" -> parse_object_base_defaults(w, dir.s1, dir.n)
      [] dir.d = "name" -> parse_object_base_name(w, dir.s1, dir.s2)
      [] dir.d = "flags" -> parse_object_base_flags(w, dir.toks)
      [] OTHER -> Undefined(w)

init_parse_slay(w, dir) ==
    CASE dir.d = "code" -> parse_slay_code(w, dir.s1)
      [] dir.d = "name" -> parse_slay_name(w, dir.s1)
      [] dir.d = "race-flag" -> parse_slay_race_flag(w, dir.s1)
      [] dir.d = "base" -> parse_slay_base(w, dir.s1)
      [] dir.d = "multiplier" -> parse_slay_multiplier(w, dir.n)
      [] dir.d = "power" -> parse_slay_power(w, dir.n)
      [] OTHER -> Undefined(w)

init_parse_brand(w, dir) ==
    CASE dir.d = "code" -> parse_brand_code(w, dir.s1)
      [] dir.d = "multiplier" -> parse_brand_multiplier(w, dir.n)
      [] OTHER -> Undefined(w)

init_parse_curse(w, dir) ==
    CASE dir.d = "name" -> parse_curse_name(w, dir.s1)
      [] dir.d = "type" -> parse_curse_type(w, dir.s1)
      [] dir.d = "flags" -> parse_curse_flags(w, dir.toks)
      [] dir.d = "effect" -> parse_curse_effect(w, dir.s1)
      [] dir.d = "effect-yx" -> parse_curse_effect_yx(w, dir.n, dir.m)
      [] dir.d = "dice" -> parse_curse_dice(w, dir.s1)
      [] dir.d = "expr" -> parse_curse_expr(w, dir.s1, dir.s2, dir.s3)
      [] dir.d = "msg" -> parse_curse_msg(w, dir.s1)
      [] OTHER -> Undefined(w)

init_parse_act(w, dir) ==
    CASE dir.d = "name" -> parse_act_name(w, dir.s1)
      [] dir.d = "power" -> parse_act_power(w, dir.n)
      [] dir.d = "effect" -> parse_act_effect(w, dir.s1)
      [] dir.d = "effect-yx" -> parse_act_effect_yx(w, dir.n, dir.m)
      [] dir.d = "dice" -> parse_act_dice(w, dir.s1)
      [] dir.d = "expr" -> parse_act_expr(w, dir.s1, dir.s2, dir.s3)
      [] dir.d = "msg_self" -> parse_act_msg_self(w, dir.s1)
      [] dir.d = "msg_other" -> parse_act_msg_other(w, dir.s1)
      [] dir.d = "msg" -> parse_act_msg(w, dir.s1)
      [] OTHER -> Undefined(w)

init_parse_object(w, dir, ub, junk) ==
    CASE dir.d = "name" -> parse_object_name(w, dir.s1)
      [] dir.d = "effect" -> parse_object_effect(w, dir.s1)
      [] dir.d = "effect-yx" -> parse_object_effect_yx(w, dir.n, dir.m)
      [] dir.d = "dice" -> parse_object_dice(w, dir.s1)
      [] dir.d = "expr" -> parse_object_expr(w, dir.s1, dir.s2, dir.s3)
      [] dir.d = "msg_self" -> parse_object_msg_self(w, dir.s1)
      [] dir.d = "msg_other" -> parse_object_msg_other(w, dir.s1)
      [] dir.d = "act" -> parse_object_act(w, dir.s1, ub, junk)
      [] dir.d = "type" -> parse_object_type(w, dir.s1)
      [] dir.d = "level" -> parse_object_level(w, dir.n)
      [] dir.d = "weight" -> parse_object_weight(w, dir.n)
      [] dir.d = "cost" -> parse_object_cost(w, dir.n)
      [] dir.d = "flags" -> parse_object_flags(w, dir.toks)
      [] dir.d = "slay" -> parse_object_slay(w, dir.s1)
      [] dir.d = "brand" -> parse_object_brand(w, dir.s1)
      [] dir.d = "curse" -> parse_object_curse(w, dir.s1, dir.n)
      [] OTHER -> Undefined(w)

init_parse_ego(w, dir, ub, junk) ==
    CASE dir.d = "name" -> parse_ego_name(w, dir.s1)
      [] dir.d = "info" -> parse_ego_info(w, dir.n)
      [] dir.d = "type" -> parse_ego_type(w, dir.s1)
      [] dir.d = "item" -> parse_ego_item(w, dir.s1, dir.s2, ub, junk)
      [] dir.d = "act" -> parse_ego_act(w, dir.s1, ub, junk)
      [] dir.d = "alloc" -> parse_ego_alloc(w, dir.n, dir.s1, junk)
      [] dir.d = "flags" -> parse_ego_flags(w, dir.toks)
      [] dir.d = "slay" -> parse_ego_slay(w, dir.s1)
      [] dir.d = "brand" -> parse_ego_brand(w, dir.s1)
      [] dir.d = "curse" -> parse_ego_curse(w, dir.s1, dir.n)
      [] OTHER -> Undefined(w)

init_parse_artifact(w, dir, ub, junk) ==
    CASE dir.d = "name" -> parse_artifact_name(w, dir.s1)
      [] dir.d = "graphics" -> parse_artifact_graphics(w, dir.s1, dir.s2, ub)
      [] dir.d = "act" -> parse_artifact_act(w, dir.s1, ub, junk)
      [] dir.d = "alloc" -> parse_artifact_alloc(w, dir.n, dir.s1, junk)
      [] dir.d = "base-object" -> parse_artifact_base_object(w, dir.s1, dir.s2)
      [] dir.d = "level" -> parse_artifact_level(w, dir.n)
      [] dir.d = "weight" -> parse_artifact_weight(w, dir.n)
      [] dir.d = "flags" -> parse_artifact_flags(w, dir.toks)
      [] dir.d = "slay" -> parse_artifact_slay(w, dir.s1)
      [] dir.d = "brand" -> parse_artifact_brand(w, dir.s1)
      [] dir.d = "curse" -> parse_artifact_curse(w, dir.s1, dir.n)
      [] OTHER -> Undefined(w)

init_parse_object_property(w, dir) ==
    CASE dir.d = "name" -> parse_object_property_name(w, dir.s1)
      [] dir.d = "type" -> parse_object_property_type(w, dir.s1)
      [] dir.d = "code" -> parse_object_property_code(w, dir.s1)
      [] dir.d = "power" -> parse_object_property_power(w, dir.n)
      [] OTHER -> Undefined(w)

init_parse_object_power(w, dir, ub, junk) ==
    CASE dir.d = "name" -> parse_object_power_name(w, dir.s1)
      [] dir.d = "type" -> parse_object_power_type(w, dir.s1)
      [] dir.d = "item" -> parse_object_power_item(w, dir.s1, dir.s2, ub, junk)
      [] dir.d = "dice" -> parse_object_power_dice(w, dir.s1)
      [] dir.d = "expr" -> parse_object_power_expr(w, dir.s1, dir.s2, dir.s3)
      [] OTHER -> Undefined(w)

\* parser_parse(p, line): the line handed to the callback its directive is
\* registered to in the grammar of file parser name.
parser_parse(name, w, dir, ub, junk) ==
    CASE name = "projection" -> init_parse_projection(w, dir)
      [] name = "object_base" -> init_parse_object_base(w, dir)
      [] name = "slay" -> init_parse_slay(w, dir)
      [] name = "brand" -> init_parse_brand(w, dir)
      [] name = "curse" -> init_parse_curse(w, dir)
      [] name = "activation" -> init_parse_act(w, dir)
      [] name = "object" -> init_parse_object(w, dir, ub, junk)
      [] name = "ego" -> init_parse_ego(w, dir, ub, junk)
      [] name = "artifact" -> init_parse_artifact(w, dir, ub, junk)
      [] name = "object_property" -> init_parse_object_property(w, dir)
      [] name = "object_power" -> init_parse_object_power(w, dir, ub, junk)

\* The finish of file parser name; hang tells a finish that never returns.
finish_parse(name, w, p0) ==
    CASE name = "projection" -> [hang |-> FALSE, w |-> finish_parse_projection(w, p0)]
      [] name = "object_base" -> finish_parse_object_base(w)
      [] name = "slay" -> [hang |-> FALSE, w |-> finish_parse_slay(w, p0)]
      [] name = "brand" -> [hang |-> FALSE, w |-> finish_parse_brand(w, p0)]
      [] name = "curse" -> [hang |-> FALSE, w |-> finish_parse_curse(w, p0)]
      [] name = "activation" -> [hang |-> FALSE, w |-> finish_parse_act(w, p0)]
      [] name = "object" -> [hang |-> FALSE, w |-> finish_parse_object(w, p0)]
      [] name = "ego" -> [hang |-> FALSE, w |-> finish_parse_ego(w, p0)]
      [] name = "artifact" -> [hang |-> FALSE, w |-> finish_parse_artifact(w)]
      [] name = "object_property" ->
             [hang |-> FALSE, w |-> finish_parse_object_property(w, p0)]
      [] name = "object_power" -> [hang |-> FALSE, w |-> finish_parse_object_power(w, p0)]

\* The cleanup of file parser name.
cleanup(name, w, ub) ==
    CASE name = "projection" -> cleanup_projection(w, ub)
      [] name = "object_base" -> cleanup_object_base(w, ub)
      [] name = "slay" -> cleanup_slay(w, ub)
      [] name = "brand" -> cleanup_brand(w, ub)
      [] name = "curse" -> cleanup_curse(w, ub)
      [] name = "activation" -> cleanup_act(w, ub)
      [] name = "object" -> cleanup_object(w, ub)
      [] name = "ego" -> cleanup_ego(w, ub)
      [] name = "artifact" -> cleanup_artifact(w, ub)
      [] name = "object_property" -> cleanup_object_property(w, ub)
      [] name = "object_power" -> cleanup_object_power(w, ub)

\* What init_parse_X stores with parser_setpriv.
InitialPriv(name) == IF name = "object_base" THEN kb_parsedata_zero ELSE <<>>

\* The global table and the recorded count file parser name fills.
TableOf(name) ==
    CASE name = "projection" -> "projections"
      [] name = "object_base" -> "kb_info"
      [] name = "slay" -> "slays"
      [] name = "brand" -> "brands"
      [] name = "curse" -> "curses"
      [] name = "activation" -> "activations"
      [] name = "object" -> "k_info"
      [] name = "ego" -> "e_info"
      [] name = "artifact" -> "a_info"
      [] name = "object_property" -> "obj_properties"
      [] name = "object_power" -> "calculations"

MaxOf(name) ==
    CASE name = "projection" -> "projection_max"
      [] name = "slay" -> "slay_max"
      [] name = "brand" -> "brand_max"
      [] name = "curse" -> "curse_max"
      [] name = "activation" -> "act_max"
      [] name = "object" -> "k_max"
      [] name = "ego" -> "e_max"
      [] name = "artifact" -> "a_max"
      [] name = "object_property" -> "property_max"
      [] name = "object_power" -> "calculation_max"

\* The tables whose finish must have run before the lines of a file are read.
Needs(name) ==
    CASE name = "object" -> {"kb_info", "slays", "brands", "curses"}
      [] name \in {"ego", "artifact"} -> {"kb_info", "slays", "brands", "curses", "k_info"}
      [] name = "object_power" -> {"k_info"}
      [] OTHER -> {}

-----------------------------------------------------------------------------
(* SDL sound support *)

\* Supported file types.
SDL_NULL == "SDL_NULL"

SDL_CHUNK == "SDL_CHUNK"

SDL_MUSIC == "SDL_MUSIC"

\* An sdl_sample as mem_zalloc leaves it.  sample_data is the union of the
\* chunk and the music pointer: 0 for NULL, else the number of the sample
\* in the heap of the mixer.
sample_zero == [sample_data |-> 0, sample_type |-> SDL_NULL]

\* A sound_data that has never been loaded.
sound_data_zero == [loaded |-> FALSE, plat_data |-> <<>>]

\* No sample made, no call made.  freed and sample_freed are what the call
\* last made released: samples of the mixer, and the sdl_sample.
mixer_zero ==
    [heap |-> <<>>, call |-> "none", file_type |-> SDL_NULL, ok |-> FALSE,
     freed |-> {}, sample_freed |-> FALSE, played |-> 0, ncalls |-> 0, state |-> "run"]

\* A call starts: nothing released by it yet.
Enter(m, call, file_type, ok) ==
    [m EXCEPT !.call = call, !.file_type = file_type, !.ok = ok, !.freed = {},
              !.sample_freed = FALSE, !.played = 0, !.ncalls = @ + 1]

\* Mix_LoadWAV / Mix_LoadMUS: a new sample of the kind, or NULL when the
\* file does not load.
Mix_Load(m, kind, ok) ==
    IF ok THEN [h |-> Len(m.heap) + 1,
                m |-> [m EXCEPT !.heap = Append(@, [kind |-> kind, live |-> TRUE])]]
    ELSE [h |-> 0, m |-> m]

\* Mix_FreeChunk / Mix_FreeMusic of sample h.  Handing the call a sample of
\* the other kind, or one that is released already, is undefined: the
\* process dies of it ("crash") or the storage is released as it is ("stale").
Mix_Free(m, h, kind, ub) ==
    IF m.heap[h].kind = kind /\ m.heap[h].live
    THEN [m EXCEPT !.heap[h].live = FALSE, !.freed = @ \cup {h}]
    ELSE IF ub = "crash" THEN [m EXCEPT !.state = "undefined"]
    ELSE [m EXCEPT !.heap[h].live = FALSE, !.freed = @ \cup {h}]

\* Load a sound from file.
load_sample_sdl(sample, m, file_type, ok, ub) ==
    CASE file_type = SDL_CHUNK ->
           LET r == Mix_Load(m, SDL_CHUNK, ok)
           IN  [ret |-> r.h # 0, sample |-> [sample EXCEPT !.sample_data = r.h], m |-> r.m]
      [] file_type = SDL_MUSIC ->
           LET m1 == IF sample.sample_data # 0
                     THEN Mix_Free(m, sample.sample_data, SDL_MUSIC, ub) ELSE m
               r == Mix_Load(m1, SDL_MUSIC, ok)
           IN  [ret |-> r.h # 0, sample |-> [sample EXCEPT !.sample_data = r.h], m |-> r.m]
      [] OTHER -> [ret |-> FALSE, sample |-> sample, m |-> m]

\* Load a sound and hand the sdl_sample back in data->plat_data.
load_sound_sdl(d, m, file_type, ok, ub) ==
    LET sample == IF d.plat_data = <<>> THEN sample_zero ELSE d.plat_data[1]
        r == load_sample_sdl(sample, Enter(m, "load", file_type, ok), file_type, ok, ub)
    IN  IF r.m.state # "run" THEN [ret |-> FALSE, data |-> d, m |-> r.m]
        ELSE IF r.ret
        THEN [ret |-> TRUE,
              data |-> [d EXCEPT !.loaded = TRUE,
                                 !.plat_data = <<[r.sample EXCEPT !.sample_type = file_type]>>],
              m |-> r.m]
        ELSE [ret |-> FALSE,
              data |-> [d EXCEPT !.loaded = FALSE, !.plat_data = <<>>],
              m |-> [r.m EXCEPT !.sample_freed = TRUE]]

\* Mix_PlayChannel / Mix_PlayMusic of sample h; chan is TRUE when the call
\* returns 0.  A sample that is released is played from storage that is no
\* longer its own, which is undefined.
Mix_Play(m, h, chan, ub) ==
    IF m.heap[h].live THEN [ret |-> chan, m |-> [m EXCEPT !.played = h]]
    ELSE IF ub = "crash" THEN [ret |-> FALSE, m |-> [m EXCEPT !.state = "undefined"]]
    ELSE [ret |-> chan, m |-> [m EXCEPT !.played = h]]

\* Play the sound stored in data.
play_sound_sdl(d, m, chan, ub) ==
    LET m0 == Enter(m, "play", SDL_NULL, FALSE)
        sample == d.plat_data[1]
    IN  IF d.plat_data = <<>> THEN [ret |-> FALSE, data |-> d, m |-> m0]
        ELSE CASE sample.sample_type = SDL_CHUNK ->
                    IF sample.sample_data = 0 THEN [ret |-> FALSE, data |-> d, m |-> m0]
                    ELSE LET r == Mix_Play(m0, sample.sample_data, chan, ub)
                         IN  [ret |-> r.ret, data |-> d, m |-> r.m]
               [] sample.sample_type = SDL_MUSIC ->
                    IF sample.sample_data = 0
                    THEN [ret |-> FALSE, data |-> [d EXCEPT !.loaded = FALSE], m |-> m0]
                    ELSE LET r == Mix_Play(m0, sample.sample_data, chan, ub)
                         IN  [ret |-> r.ret, data |-> [d EXCEPT !.loaded = FALSE], m |-> r.m]
               [] OTHER -> [ret |-> FALSE, data |-> d, m |-> m0]

\* A plausible slip: the sdl_sample is released and data still points at it.
unload_sound_sdl_dangling(d, m, ub) ==
    LET m0 == Enter(m, "unload", SDL_NULL, FALSE)
        sample == d.plat_data[1]
    IN  IF d.plat_data = <<>> THEN [ret |-> TRUE, data |-> d, m |-> m0]
        ELSE LET m1 == IF sample.sample_type \in {SDL_CHUNK, SDL_MUSIC}
                          /\ sample.sample_data # 0
                       THEN Mix_Free(m0, sample.sample_data, sample.sample_type, ub)
                       ELSE m0
             IN  [ret |-> TRUE,
                  data |-> [d EXCEPT !.loaded = FALSE],
                  m |-> [m1 EXCEPT !.sample_freed = TRUE]]

\* Free resources referenced in data.
unload_sound_sdl(d, m, ub) ==
    LET m0 == Enter(m, "unload", SDL_NULL, FALSE)
        sample == d.plat_data[1]
    IN  IF d.plat_data = <<>> THEN [ret |-> TRUE, data |-> d, m |-> m0]
        ELSE LET m1 == IF sample.sample_type \in {SDL_CHUNK, SDL_MUSIC}
                          /\ sample.sample_data # 0
                       THEN Mix_Free(m0, sample.sample_data, sample.sample_type, ub)
                       ELSE m0
             IN  [ret |-> TRUE,
                  data |-> [d EXCEPT !.loaded = FALSE, !.plat_data = <<>>],
                  m |-> [m1 EXCEPT !.sample_freed = TRUE]]

-----------------------------------------------------------------------------
(* The pass: init, lines, finish, cleanup *)

Commit(w) ==
    /\ priv' = w.priv
    /\ tables' = w.tables
    /\ z_info' = w.z_info
    /\ nfree' = w.nfree
    /\ reads' = w.reads
    /\ nexpr' = w.nexpr
    /\ UNCHANGED <<data, mixer>>

\* init_parse_X: parser_new(), parser_setpriv(), the grammar registered.  A
\* file is read once, after the files it refers to.
InitParse(name) ==
    /\ pc = "idle"
    /\ tables[TableOf(name)].ptr = 0
    /\ \A t \in Needs(name) : tables[t].ptr # 0
    /\ parser' = name
    /\ pc' = "run"
    /\ priv' = InitialPriv(name)
    /\ file' = <<>>
    /\ ret' = PARSE_ERROR_NONE
    /\ UNCHANGED <<tables, z_info, nfree, reads, ncleanup, nexpr, data, mixer>>

\* One line dispatched to its callback.  Any code but PARSE_ERROR_NONE ends
\* the file and the load.
Line(name, dir, ub, junk) ==
    LET r == parser_parse(name, World, dir, ub, junk) IN
    /\ parser = name
    /\ pc = "run"
    /\ Len(file) < MaxLines
    /\ file' = Append(file, dir)
    /\ ret' = r.ret
    /\ pc' = CASE r.ret = PARSE_ERROR_NONE -> "run"
               [] r.ret = "abort" -> "abort"
               [] r.ret = "crash" -> "undefined"
               [] OTHER -> "quit"
    /\ Commit(r.w)
    /\ UNCHANGED <<parser, ncleanup>>

\* finish_parse_X, run once every line of the file has been accepted.
Finish(name, p0) ==
    LET r == finish_parse(name, World, p0) IN
    /\ parser = name
    /\ pc = "run"
    /\ pc' = IF r.hang THEN "undefined" ELSE "finished"
    /\ Commit(r.w)
    /\ UNCHANGED <<parser, file, ret, ncleanup>>

\* cleanup_X, called for a table that was never loaded, that has been
\* finished, or that has been cleaned up already.
Cleanup(name, ub) ==
    LET r == cleanup(name, World, ub) IN
    /\ \/ pc = "idle"
       \/ pc \in {"finished", "cleaned"} /\ parser = name
    /\ ncleanup < MaxCleanups
    /\ ncleanup' = ncleanup + 1
    /\ parser' = name
    /\ pc' = IF r.ret = "returned" THEN "cleaned" ELSE "undefined"
    /\ Commit(r.w)
    /\ UNCHANGED <<file, ret>>

\* A line that runs into no undefined behaviour whatever the build.
Plain(name, dir) == Line(name, dir, "crash", 0)

-----------------------------------------------------------------------------
(* Inputs *)

Codes == {"EVIL_2", "ORC_3"}

Names == {"a", "b"}

UInts == {1, 2}

\* What mem_zalloc(0) may return: NULL, or a pointer to nothing.
ZeroAlloc == {0, 1}

UB == {"stale", "crash"}

\* What a read through a NULL pointer may yield when the process survives it.
Junk == {0, 1}

\* The ten list-materialised record types.
RecordTypes ==
    {"projection", "slay", "brand", "curse", "activation", "object", "ego",
     "artifact", "object_property", "object_power"}

Str(d, s) == Dir(d, s, "", 0, <<>>)

Num(d, n) == Dir(d, "", "", n, <<>>)

Sym2(d, s1, s2) == Dir(d, s1, s2, 0, <<>>)

SymNum(d, s, n) == Dir(d, s, "", n, <<>>)

Toks(d, toks) == Dir(d, "", "", 0, toks)

Sym3(d, s1, s2, s3) == [Dir(d, s1, s2, 0, <<>>) EXCEPT !.s3 = s3]

Num2(d, n, m) == [Dir(d, "", "", n, <<>>) EXCEPT !.m = m]

-----------------------------------------------------------------------------
(* The tables a later file finds loaded *)

NullTable == [ptr |-> 0, rows |-> <<>>]

NoKind ==
    [unknown_item_kind |-> NullPtr, unknown_gold_kind |-> NullPtr,
     pile_kind |-> NullPtr, curse_object_kind |-> NullPtr]

\* Nothing loaded: every table pointer is NULL, z_info is zeroed.
Fresh ==
    [priv |-> <<>>,
     tables |-> [projections |-> NullTable, kb_info |-> NullTable, slays |-> NullTable,
                 brands |-> NullTable, curses |-> NullTable, activations |-> NullTable,
                 k_info |-> NullTable, e_info |-> NullTable, a_info |-> NullTable,
                 obj_properties |-> NullTable, calculations |-> NullTable,
                 kinds |-> NoKind],
     z_info |-> [projection_max |-> 0, slay_max |-> 0, brand_max |-> 0, curse_max |-> 0,
                 act_max |-> 0, k_max |-> 0, e_max |-> 0, a_max |-> 0,
                 property_max |-> 0, calculation_max |-> 0],
     nfree |-> <<>>,
     reads |-> {},
     nexpr |-> 0]

\* The lines of a file that parses without error, run through its grammar.
RECURSIVE run_parser(_, _, _)
run_parser(name, w, lines) ==
    IF lines = <<>> THEN w
    ELSE run_parser(name, parser_parse(name, w, Head(lines), "crash", 0).w, Tail(lines))

\* init, run and finish of one file on top of world w.
Load(name, w, lines) ==
    finish_parse(name, run_parser(name, [w EXCEPT !.priv = InitialPriv(name)], lines), 0).w

object_base_txt ==
    <<Sym2("name", "none", NullStr),
      Sym2("name", "sword", "Sword~"),
      Toks("flags", <<<<"EASY", "KNOW">>>>)>>

\* object_base.txt with a base for every object type.
object_base_full_txt == object_base_txt \o <<Sym2("name", "light", "Light~")>>

slay_txt == <<Str("code", "EVIL_2"), Num("multiplier", 2), Str("code", "ORC_3")>>

brand_txt == <<Str("code", "FIRE_3"), Num("multiplier", 3)>>

curse_txt == <<Str("name", "vulnerability"), Str("type", "sword")>>

object_txt ==
    <<Str("name", "<curse object>"), Str("type", "none"),
      Str("name", "& Dagger~"), Str("type", "sword"), Num("level", 5)>>

\* The world once the files object.txt refers to are loaded.
WithBases(base_lines) ==
    Load("curse", Load("brand", Load("slay", Load("object_base", Fresh, base_lines),
                                     slay_txt), brand_txt), curse_txt)

\* The world once object.txt is loaded too.
WithKinds(base_lines) == Load("object", WithBases(base_lines), object_txt)

activation_txt == <<Str("name", "a"), Str("name", "b"), Str("name", "a")>>

\* object.txt with a light among its kinds.
object_light_txt == object_txt \o <<Str("name", "& Torch~"), Str("type", "light")>>

\* The world once the files object.txt refers to and activation.txt are loaded.
WithActs == Load("activation", WithBases(object_base_full_txt), activation_txt)

\* The world once object.txt, with its light, is loaded on top of them.
WithAll == Load("object", WithActs, object_light_txt)

\* The loader idle on top of world w.
InitIdle(w) ==
    /\ parser = "none"
    /\ pc = "idle"
    /\ file = <<>>
    /\ ret = PARSE_ERROR_NONE
    /\ priv = <<>>
    /\ tables = w.tables
    /\ z_info = w.z_info
    /\ nfree = <<>>
    /\ reads = {}
    /\ ncleanup = 0
    /\ nexpr = 0
    /\ data = sound_data_zero
    /\ mixer = mixer_zero

-----------------------------------------------------------------------------
(* The life cycle of the ten list-materialised tables *)

ProjectionCodes == {"ACID", "POIS", "ARROW"}

Tvals == {"sword", "light"}

\* The init, finish and cleanup of one of the file parsers in files.
Start(files) == \E name \in files : InitParse(name)

End(files) == \E name \in files : \E p0 \in ZeroAlloc : Finish(name, p0)

Release(files) == \E name \in files : \E ub \in UB : Cleanup(name, ub)

(* projection.txt *)
projection_code == \E v \in ProjectionCodes : Plain("projection", Str("code", v))

projection_name == \E v \in Names : Plain("projection", Str("name", v))

(* slay.txt *)
slay_code == \E v \in Codes : Plain("slay", Str("code", v))

slay_multiplier == \E v \in UInts : Plain("slay", Num("multiplier", v))

slay_power == \E v \in UInts : Plain("slay", Num("power", v))

(* brand.txt *)
brand_code == \E v \in Codes : Plain("brand", Str("code", v))

brand_multiplier == \E v \in UInts : Plain("brand", Num("multiplier", v))

(* curse.txt *)
curse_name == \E v \in Names : Plain("curse", Str("name", v))

curse_type == \E v \in Tvals : Plain("curse", Str("type", v))

(* activation.txt *)
act_name == \E v \in Names : Plain("activation", Str("name", v))

act_power == \E v \in UInts : Plain("activation", Num("power", v))

(* object.txt *)
object_name == \E v \in Names : Plain("object", Str("name", v))

object_level == \E v \in UInts : Plain("object", Num("level", v))

object_weight == \E v \in UInts : Plain("object", Num("weight", v))

(* ego.txt *)
ego_name == \E v \in Names : Plain("ego", Str("name", v))

ego_info == \E v \in UInts : Plain("ego", Num("info", v))

(* artifact.txt *)
artifact_name == \E v \in Names : Plain("artifact", Str("name", v))

(* object_property.txt *)
object_property_name == \E v \in Names : Plain("object_property", Str("name", v))

object_property_power == \E v \in UInts : Plain("object_property", Num("power", v))

(* object_power.txt *)
object_power_name == \E v \in Names : Plain("object_power", Str("name", v))

object_power_type == \E v \in Tvals : Plain("object_power", Str("type", v))

Init ==
    \/ InitIdle(Fresh)
    \/ InitIdle(WithBases(object_base_full_txt))
    \/ InitIdle(WithKinds(object_base_full_txt))

Next ==
    \/ Start(RecordTypes)
    \/ projection_code
    \/ projection_name
    \/ slay_code
    \/ slay_multiplier
    \/ slay_power
    \/ brand_code
    \/ brand_multiplier
    \/ curse_name
    \/ curse_type
    \/ act_name
    \/ act_power
    \/ object_name
    \/ object_level
    \/ object_weight
    \/ ego_name
    \/ ego_info
    \/ artifact_name
    \/ object_property_name
    \/ object_property_power
    \/ object_power_name
    \/ object_power_type
    \/ End(RecordTypes)
    \/ Release(RecordTypes)

Spec == Init /\ [][Next]_vars

-----------------------------------------------------------------------------
(* What the finished table owes to the file *)

\* The directive that opens a record in the file of parser name.
HeaderOf(name) == IF name \in {"projection", "slay", "brand"} THEN "code" ELSE "name"

\* The header directives dispatched so far, in file order.
Headers == SelectSeq(file, LAMBDA dir : dir.d = HeaderOf(parser))

\* The table and the recorded count of the file parser this behaviour follows.
Table == tables[TableOf(parser)]

Max == z_info[MaxOf(parser)]

\* The field that holds what the header directive carried.
KeyOf(name, row) == IF name \in {"slay", "brand"} THEN row.code ELSE row.name

\* The record line i of the file belongs to: the number of headers up to it.
BlockOf(i) == Cardinality({j \in 1..i : file[j].d = HeaderOf(parser)})

\* The lines of record k that carry directive d.
LinesOf(k, d) == {i \in 1..Len(file) : file[i].d = d /\ BlockOf(i) = k}

Last(S) == CHOOSE i \in S : \A j \in S : j <= i

\* The directives of each file that store one integer, and the field each stores.
SingleValued(name) ==
    CASE name = "slay" -> {"multiplier", "power"}
      [] name = "brand" -> {"multiplier"}
      [] name = "activation" -> {"power"}
      [] name = "object" -> {"level", "weight", "cost"}
      [] name = "ego" -> {"info"}
      [] name = "object_property" -> {"power"}
      [] OTHER -> {}

FieldOf(d) == IF d = "info" THEN "rating" ELSE d

\* C1: after finish, the record the k-th header directive (0-based) created
\* is row k of the finished table, for each of the ten record types and
\* however many records follow it: row k carries the code or name of the
\* k-th header (a projection row, which keeps no code, carries the index k
\* its header gave it) and the index field finish assigns is k.
C1_RowIsHeaderPosition ==
    (parser \in RecordTypes /\ pc = "finished") =>
        /\ Len(Table.rows) >= Len(Headers)
        /\ \A k \in 0..(Len(Headers) - 1) :
              LET row == Table.rows[k + 1] IN
              /\ parser # "projection" => KeyOf(parser, row) = Headers[k + 1].s1
              /\ parser = "projection" => row.index = k
              /\ parser = "activation" => row.index = k
              /\ parser = "object" => row.kidx = k
              /\ parser = "ego" => row.eidx = k
              /\ parser = "artifact" => row.aidx = k

\* Two records with different names and a field directive between them have
\* been finished into the object-kind table.
C1_Witness ==
    /\ parser = "object" /\ pc = "finished"
    /\ Len(Headers) >= 2
    /\ Headers[1].s1 # Headers[2].s1
    /\ Len(file) > Len(Headers)
    /\ file[2].d = "level"

\* C2: after finish of a file with N header directives the recorded count
\* (slay_max, brand_max, curse_max, act_max, k_max, e_max, a_max,
\* property_max, calculation_max, projection_max) is N and the table has one
\* row per header (the artifact table has its nine spare shelves on top),
\* whether or not two headers carry the same name.
C2_CountIsHeaders ==
    (parser \in RecordTypes /\ pc = "finished") =>
        /\ Max = Len(Headers)
        /\ Len(Table.rows) =
               Len(Headers) + (IF parser = "artifact" THEN ShelvesForRings ELSE 0)

\* Two ego records of the same name have been finished into two rows.
C2_Witness ==
    /\ parser = "ego" /\ pc = "finished"
    /\ Len(Headers) = 2
    /\ Headers[1].s1 = Headers[2].s1
    /\ z_info.e_max = 2
    /\ tables.e_info.rows[1].name = tables.e_info.rows[2].name

\* C3: when a single-value field directive is given several times for one
\* record, the finished row holds the value of the last of them, and a row
\* whose record has no such directive keeps the zero it was allocated with.
C3_LastDirectiveWins ==
    (parser \in RecordTypes /\ pc = "finished") =>
        \A k \in 1..Len(Headers) : \A d \in SingleValued(parser) :
            Table.rows[k][FieldOf(d)] =
                IF LinesOf(k, d) = {} THEN 0 ELSE file[Last(LinesOf(k, d))].n

\* A slay record given two different multipliers, followed by another record.
C3_Witness ==
    /\ parser = "slay" /\ pc = "finished"
    /\ Len(Headers) = 2
    /\ \E i, j \in LinesOf(1, "multiplier") : i < j /\ file[i].n # file[j].n
    /\ tables.slays.rows[2].multiplier = 0

\* C4: two calls in a row of a table's cleanup return, and between them
\* release every string, sub-allocation and the table array at most once.
\* (A table pointer still NULL at the second call belongs to a table never
\* finished or finished empty.)
C4_CleanupTwiceReleasesOnce ==
    (parser \in RecordTypes /\ ncleanup = 2) =>
        /\ pc = "cleaned"
        /\ \A id \in DOMAIN nfree : nfree[id] <= 1

-----------------------------------------------------------------------------
(* Flag strings with a token nothing accepts *)

FlagTokens == {<<"SEE", "INVIS">>, KF_INSTA_ART, <<"IGNORE", "ACID">>, <<"BOGUS">>}

RECURSIVE SeqsUpTo(_, _)
SeqsUpTo(S, n) ==
    IF n = 0 THEN {<<>>}
    ELSE LET R == SeqsUpTo(S, n - 1) IN R \cup {Append(r, x) : r \in R, x \in S}

FlagStrings == SeqsUpTo(FlagTokens, MaxTokens)

\* The files with a flags directive that are followed here.
FlagFiles == {"object_base", "curse", "object", "ego", "artifact"}

\* The one flags line of a file.
FlagsLine(name) ==
    \E toks \in FlagStrings :
        /\ \A i \in 1..Len(file) : file[i].d # "flags"
        /\ Plain(name, Toks("flags", toks))

object_base_name ==
    \E t \in Tvals : Plain("object_base", Sym2("name", t, NullStr))

object_base_flags == FlagsLine("object_base")

curse_flags == FlagsLine("curse")

object_flags == FlagsLine("object")

ego_flags == FlagsLine("ego")

artifact_flags == FlagsLine("artifact")

InitFlags == Init

NextFlags ==
    \/ Start(FlagFiles)
    \/ object_base_name
    \/ object_base_flags
    \/ curse_name
    \/ curse_flags
    \/ object_name
    \/ object_flags
    \/ ego_name
    \/ ego_flags
    \/ artifact_name
    \/ artifact_flags
    \/ End(FlagFiles)

SpecFlags == InitFlags /\ [][NextFlags]_vars

\* The record the callbacks of the current file write to: d->kb for an
\* object base, the curse's object for a curse, the record itself otherwise.
FlagRecord ==
    CASE parser = "object_base" -> priv.kb[1]
      [] parser = "curse" -> priv[1].obj[1]
      [] OTHER -> priv[1]

\* Whether the flags callback of the current file tries the kind flag table.
TriesKindFlags == parser \in {"object_base", "object", "ego"}

IsElementFlag(t) ==
    /\ Len(t) = 2
    /\ t[1] \in {"IGNORE", "HATES"}
    /\ \E i \in 1..ELEM_MAX : t[2] = list_element_names[i]

\* Whether some matcher of the flags callback of the current file accepts t.
Accepted(t) ==
    \/ t \in list_obj_flag_names
    \/ TriesKindFlags /\ t \in kind_flags
    \/ IsElementFlag(t)

FirstRejected(toks) ==
    IF \A i \in 1..Len(toks) : Accepted(toks[i]) THEN 0
    ELSE CHOOSE i \in 1..Len(toks) :
             ~Accepted(toks[i]) /\ \A j \in 1..(i - 1) : Accepted(toks[j])

\* The element flags a record has before any flags line: an artifact
\* ignores the base elements, every other record starts with none.
ElementFlagsAtHeader(i) ==
    IF parser = "artifact" /\ i \in base_elements THEN {"EL_INFO_IGNORE"} ELSE {}

\* What the tokens toks set on a record fresh from its header.
FlagsOf(toks) == {toks[i] : i \in 1..Len(toks)} \cap list_obj_flag_names

KindFlagsOf(toks) ==
    IF TriesKindFlags THEN {toks[i] : i \in 1..Len(toks)} \cap kind_flags ELSE {}

ElementFlagsOf(toks, i) ==
    ElementFlagsAtHeader(i)
        \cup {"EL_INFO_IGNORE" : j \in {h \in 1..Len(toks) :
                                           toks[h] = <<"IGNORE", list_element_names[i + 1]>>}}
        \cup {"EL_INFO_HATES" : j \in {h \in 1..Len(toks) :
                                          toks[h] = <<"HATES", list_element_names[i + 1]>>}}

\* The last line dispatched is a flags line given to an existing record.
AfterFlags ==
    /\ parser \in FlagFiles
    /\ pc \in {"run", "quit"}
    /\ Len(file) >= 2
    /\ file[Len(file)].d = "flags"

\* C6: a flags directive whose string has a token no active matcher accepts
\* returns PARSE_ERROR_INVALID_FLAG; the record then carries exactly what the
\* tokens before that token set (nothing is rolled back) and nothing of the
\* tokens after it (the scan stopped there).
C6_ScanStopsAtInvalidFlag ==
    AfterFlags =>
        LET toks == file[Len(file)].toks
            bad == FirstRejected(toks)
            done == IF bad = 0 THEN toks ELSE SubSeq(toks, 1, bad - 1)
        IN  /\ bad # 0 => ret = "PARSE_ERROR_INVALID_FLAG" /\ pc = "quit"
            /\ bad = 0 => ret = PARSE_ERROR_NONE
            /\ FlagRecord.flags = FlagsOf(done)
            /\ parser # "curse" /\ parser # "artifact" =>
                   FlagRecord.kind_flags = KindFlagsOf(done)
            /\ \A i \in 0..(ELEM_MAX - 1) :
                   FlagRecord.el_info[i].flags = ElementFlagsOf(done, i)

\* An object kind given "SEE_INVIS | BOGUS | INSTA_ART": the first flag is
\* set, the kind flag after the bad token is not.
C6_Witness ==
    /\ AfterFlags
    /\ parser = "object"
    /\ file[Len(file)].toks = <<<<"SEE", "INVIS">>, <<"BOGUS">>, KF_INSTA_ART>>
    /\ ret = "PARSE_ERROR_INVALID_FLAG"
    /\ priv[1].flags = {<<"SEE", "INVIS">>}
    /\ priv[1].kind_flags = {}

-----------------------------------------------------------------------------
(* References to slays, brands and curses *)

\* Codes and names the lines refer to: the ones slay_txt, brand_txt and
\* curse_txt define, and one more of each that they do not.
SlayRefs == {"EVIL_2", "ORC_3", "TROLL_3"}

BrandRefs == {"FIRE_3", "COLD_2"}

CurseRefs == {"vulnerability", "teleportation"}

object_slay == \E c \in SlayRefs : Plain("object", Str("slay", c))

object_brand == \E c \in BrandRefs : Plain("object", Str("brand", c))

object_curse == \E c \in CurseRefs : \E v \in UInts : Plain("object", SymNum("curse", c, v))

ego_slay == \E c \in SlayRefs : Plain("ego", Str("slay", c))

ego_brand == \E c \in BrandRefs : Plain("ego", Str("brand", c))

ego_curse == \E c \in CurseRefs : \E v \in UInts : Plain("ego", SymNum("curse", c, v))

artifact_slay == \E c \in SlayRefs : Plain("artifact", Str("slay", c))

artifact_brand == \E c \in BrandRefs : Plain("artifact", Str("brand", c))

artifact_curse ==
    \E c \in CurseRefs : \E v \in UInts : Plain("artifact", SymNum("curse", c, v))

XrefFiles == {"object", "ego", "artifact"}

InitXref ==
    \/ InitIdle(WithBases(object_base_full_txt))
    \/ InitIdle(WithKinds(object_base_full_txt))

NextXref ==
    \/ Start(XrefFiles)
    \/ object_name
    \/ object_slay
    \/ object_brand
    \/ object_curse
    \/ ego_name
    \/ ego_slay
    \/ ego_brand
    \/ ego_curse
    \/ artifact_name
    \/ artifact_slay
    \/ artifact_brand
    \/ artifact_curse
    \/ End(XrefFiles)

SpecXref == InitXref /\ [][NextXref]_vars

\* This step dispatches a line of directive d to an existing record.
Dispatches(d) ==
    /\ pc = "run"
    /\ priv # <<>>
    /\ Len(file') = Len(file) + 1
    /\ file'[Len(file')].d = d

\* The table a slay, brand or curse directive searches has no such entry.
AbsentRef(dir) ==
    CASE dir.d = "slay" ->
             \A i \in 1..z_info.slay_max : tables.slays.rows[i].code # dir.s1
      [] dir.d = "brand" ->
             \A i \in 1..z_info.brand_max : tables.brands.rows[i].code # dir.s1
      [] dir.d = "curse" ->
             \A i \in 1..z_info.curse_max : tables.curses.rows[i].name # dir.s1

Unrecognised(d) ==
    CASE d = "slay" -> "PARSE_ERROR_UNRECOGNISED_SLAY"
      [] d = "brand" -> "PARSE_ERROR_UNRECOGNISED_BRAND"
      [] d = "curse" -> "PARSE_ERROR_UNRECOGNISED_CURSE"

\* C7: an object, ego or artifact slay, brand or curse directive whose code
\* or name the finished slay, brand or curse table does not have returns
\* the matching unrecognised-slay, -brand or -curse error and leaves the
\* slays, brands and curses fields of the record as they were: nothing is
\* allocated, no entry changes.
C7_AbsentRefLeavesRecord ==
    [][\A d \in {"slay", "brand", "curse"} :
          (/\ parser \in XrefFiles
           /\ Dispatches(d)
           /\ AbsentRef(file'[Len(file')]))
          => /\ ret' = Unrecognised(d)
             /\ pc' = "quit"
             /\ priv'[1].slays = priv[1].slays
             /\ priv'[1].brands = priv[1].brands
             /\ priv'[1].curses = priv[1].curses]_vars

\* An artifact with a slay already set is given a curse the curse table
\* does not have: the error is returned, the slays stay and no curses array
\* has been allocated.
C7_Witness ==
    /\ parser = "artifact" /\ pc = "quit"
    /\ Len(file) = 3
    /\ file[2] = Str("slay", "EVIL_2")
    /\ file[3].d = "curse" /\ file[3].s1 = "teleportation"
    /\ ret = "PARSE_ERROR_UNRECOGNISED_CURSE"
    /\ priv[1].slays # <<>>
    /\ priv[1].curses = <<>>

-----------------------------------------------------------------------------
(* Possible items of ego items and power calculations *)

ItemTvals == {"sword", "none", "bogus"}

ItemSvals == {"Dagger", "7", "<curse object>"}

ego_type == \E t \in ItemTvals : Plain("ego", Str("type", t))

ego_item ==
    \E t \in ItemTvals : \E sv \in ItemSvals : \E ub \in UB : \E junk \in Junk :
        Line("ego", Sym2("item", t, sv), ub, junk)

object_power_item ==
    \E t \in ItemTvals : \E sv \in ItemSvals : \E ub \in UB : \E junk \in Junk :
        Line("object_power", Sym2("item", t, sv), ub, junk)

ItemFiles == {"ego", "object_power"}

InitItem == InitIdle(WithKinds(object_base_full_txt))

NextItem ==
    \/ Start(ItemFiles)
    \/ ego_name
    \/ ego_type
    \/ ego_item
    \/ object_power_name
    \/ object_power_type
    \/ object_power_item
    \/ End(ItemFiles)

SpecItem == InitItem /\ [][NextItem]_vars

\* No object kind has the tval and sval the item line names.
NoKindFor(dir) ==
    lookup_kind(World, tval_find_idx(dir.s1),
                lookup_sval(World, tval_find_idx(dir.s1), dir.s2)) < 0

\* C8: an ego or power-calculation item directive that names a tval and sval
\* no object kind has returns an error, and the record's list of possible
\* items is the same after the directive as before it.
C8_BadItemLeavesList ==
    [][(/\ parser \in ItemFiles
        /\ Dispatches("item")
        /\ NoKindFor(file'[Len(file')]))
       => /\ pc' = "quit"
          /\ priv'[1].poss_items = priv[1].poss_items]_vars

-----------------------------------------------------------------------------
(* Artifacts whose base object is not among the object kinds *)

ArtifactSvals == {"Dagger", "Phial"}

artifact_base_object ==
    \E t \in Tvals : \E sv \in ArtifactSvals :
        Plain("artifact", Sym2("base-object", t, sv))

artifact_level == \E v \in UInts : Plain("artifact", Num("level", v))

\* object.txt loaded on top of an object_base.txt with a base for every
\* object type, or on top of one with no base for lights.
InitArt ==
    \/ InitIdle(WithKinds(object_base_full_txt))
    \/ InitIdle(WithKinds(object_base_txt))

NextArt ==
    \/ Start({"artifact"})
    \/ artifact_name
    \/ artifact_base_object
    \/ artifact_level
    \/ End({"artifact"})

SpecArt == InitArt /\ [][NextArt]_vars

\* This step dispatches a base-object line whose sval name is not found
\* among the kinds of its tval.
SvalNotFound ==
    /\ parser = "artifact"
    /\ Dispatches("base-object")
    /\ tval_find_idx(file'[Len(file')].s1) >= 0
    /\ lookup_sval(World, tval_find_idx(file'[Len(file')].s1), file'[Len(file')].s2) < 0

\* This step dispatches a base-object line whose sval name is found.
SvalFound ==
    /\ parser = "artifact"
    /\ Dispatches("base-object")
    /\ tval_find_idx(file'[Len(file')].s1) >= 0
    /\ lookup_sval(World, tval_find_idx(file'[Len(file')].s1), file'[Len(file')].s2) >= 0

\* This step appends one row to the object-kind table and changes no other.
OneRowAppended ==
    /\ z_info'.k_max = z_info.k_max + 1
    /\ Len(tables'.k_info.rows) = z_info'.k_max
    /\ SubSeq(tables'.k_info.rows, 1, z_info.k_max)
           = SubSeq(tables.k_info.rows, 1, z_info.k_max)
    /\ tables'.k_info.rows[z_info'.k_max].kidx = z_info'.k_max - 1
    /\ tables'.k_info.rows[z_info'.k_max].tval = priv'[1].tval

\* The new row is an INSTA_ART kind with the sentinel level and weight.
NewRowIsSynthetic ==
    LET dummy == tables'.k_info.rows[z_info'.k_max] IN
    /\ KF_INSTA_ART \in dummy.kind_flags
    /\ dummy.level = -1
    /\ dummy.weight = -1

MadeSyntheticKind ==
    /\ parser = "artifact"
    /\ pc = "run"
    /\ file # <<>>
    /\ file[Len(file)].d = "base-object"
    /\ z_info.k_max = Len(tables.k_info.rows)
    /\ KF_INSTA_ART \in tables.k_info.rows[z_info.k_max].kind_flags

C10_SvalIsRowIndex ==
    [][(SvalNotFound /\ ret' = PARSE_ERROR_NONE) =>
           priv'[1].sval = z_info'.k_max - 1]_vars

\* C10, amended: the artifact's sval is the sval of the new row, which is
\* the sval count of the tval's base after its increment by one; the new
\* row's index is its kidx, not its sval.
C10_SvalIsNewRowSval ==
    [][(SvalNotFound /\ ret' = PARSE_ERROR_NONE) =>
           /\ priv'[1].sval = tables'.k_info.rows[z_info'.k_max].sval
           /\ priv'[1].sval = tables'.kb_info.rows[priv'[1].tval + 1].num_svals
           /\ tables'.kb_info.rows[priv'[1].tval + 1].num_svals
                  = tables.kb_info.rows[priv'[1].tval + 1].num_svals + 1
           /\ tables'.k_info.rows[z_info'.k_max].kidx = z_info'.k_max - 1]_vars

\* The first light kind is made for an artifact: its sval is 1 while its
\* row is the third of the table.
C10_Witness ==
    /\ MadeSyntheticKind
    /\ file[Len(file)].s1 = "light"
    /\ priv[1].sval = 1
    /\ tables.k_info.rows[z_info.k_max].sval = 1
    /\ tables.k_info.rows[z_info.k_max].kidx = 2


\* A field directive is dispatched while the parser holds no record.
FieldBeforeHeader ==
    /\ pc = "run"
    /\ priv = <<>>
    /\ Len(file') = Len(file) + 1
    /\ file'[Len(file')].d # HeaderOf(parser)

\* C12, as the claim has it: a field directive dispatched before any header
\* directive returns PARSE_ERROR_MISSING_RECORD_HEADER, the process goes on
\* to quit on that code (it neither aborts nor reads through the absent
\* record), and no record, table or count has changed.
C12_FieldBeforeHeaderIsRefused ==
    [][FieldBeforeHeader =>
           /\ ret' = "PARSE_ERROR_MISSING_RECORD_HEADER"
           /\ pc' = "quit"
           /\ <<priv', tables', z_info'>> = <<priv, tables, z_info>>]_vars

\* The finished tables whose rows are chained, and those whose rows are not.
Chained == {"k_info", "e_info", "a_info", "activations"}

Unchained == {"projections", "slays", "brands", "curses", "obj_properties", "calculations"}

\* C19: once a file is finished, the N rows of an object-kind, ego,
\* artifact or activation table are chained in index order (row i to row
\* i + 1, the last to NULL), and every row of a projection, slay, brand,
\* curse, property or power-calculation table has a NULL next: no row
\* refers to a node of the list the parser built.
C19_NextChainedOrNull ==
    pc = "finished" =>
        /\ TableOf(parser) \in Chained =>
               \A i \in 1..Max :
                   Table.rows[i].next = IF i < Max THEN ElemPtr(TableOf(parser), i)
                                        ELSE NullPtr
        /\ TableOf(parser) \in Unchained =>
               \A i \in 1..Max : Table.rows[i].next = NullPtr
        /\ TableOf(parser) \in Chained \cup Unchained =>
               \A i \in DOMAIN Table.rows : Table.rows[i].next # NodePtr

\* A slay table of three rows and an object-kind table of two were finished.
C19_Witness ==
    /\ pc = "finished"
    /\ \/ parser = "slay" /\ Max = 3 /\ Table.rows[1].next = NullPtr
       \/ /\ parser = "object"
          /\ Max = 2
          /\ Table.rows[1].next = ElemPtr("k_info", 1)
          /\ Table.rows[2].next = NullPtr

-----------------------------------------------------------------------------
(* The defaults of object_base.txt *)

DefaultLabels == {"break-chance", "max-stack", "max-weight"}

DefaultValues == {10, 40}

object_base_default ==
    \E label \in DefaultLabels : \E v \in DefaultValues :
        Plain("object_base", Dir("default", label, "", v, <<>>))

InitBase == InitIdle(Fresh)

NextBase ==
    \/ Start({"object_base"})
    \/ object_base_default
    \/ object_base_name
    \/ End({"object_base"})

SpecBase == InitBase /\ [][NextBase]_vars

\* A line of object_base.txt is dispatched.
BaseLine(d) ==
    /\ parser = "object_base"
    /\ pc = "run"
    /\ Len(file') = Len(file) + 1
    /\ file'[Len(file')].d = d

\* C20: a name line of object_base.txt makes a record that holds the
\* break chance and the stack limit the defaults hold at that moment, and
\* leaves the defaults and the older records alone; a default line changes
\* no record made before it; a default line with a label other than
\* break-chance and max-stack returns an error and changes no default.
C20_DefaultsReachLaterRecordsOnly ==
    [][/\ BaseLine("name") =>
              /\ Len(priv'.kb) = Len(priv.kb) + 1
              /\ priv'.kb[1].break_perc = priv.defaults.break_perc
              /\ priv'.kb[1].max_stack = priv.defaults.max_stack
              /\ priv'.defaults = priv.defaults
              /\ \A i \in 1..Len(priv.kb) : priv'.kb[i + 1] = priv.kb[i]
       /\ BaseLine("default") =>
              LET dir == file'[Len(file')] IN
              /\ priv'.kb = priv.kb
              /\ dir.s1 = "break-chance" =>
                     /\ ret' = PARSE_ERROR_NONE
                     /\ priv'.defaults = [priv.defaults EXCEPT !.break_perc = dir.n]
              /\ dir.s1 = "max-stack" =>
                     /\ ret' = PARSE_ERROR_NONE
                     /\ priv'.defaults = [priv.defaults EXCEPT !.max_stack = dir.n]
              /\ dir.s1 \notin {"break-chance", "max-stack"} =>
                     /\ ret' = "PARSE_ERROR_UNDEFINED_DIRECTIVE"
                     /\ priv'.defaults = priv.defaults]_vars

\* A record was made, then the default break chance was set, then a second
\* record was made: the first holds 0, the second the default.
C20_Witness ==
    /\ parser = "object_base"
    /\ pc = "run"
    /\ Len(file) = 3
    /\ <<file[1].d, file[2].d, file[3].d>> = <<"name", "default", "name">>
    /\ file[2].s1 = "break-chance"
    /\ Len(priv.kb) = 2
    /\ priv.kb[2].break_perc = 0
    /\ priv.kb[1].break_perc = file[2].n
    /\ priv.defaults.break_perc = file[2].n

-----------------------------------------------------------------------------
(* Effects, dice and expressions of the records that carry them *)

EffectFiles == {"object", "curse", "activation", "object_power"}

\* The files whose records hold a list of effects.
WithEffects == EffectFiles \ {"object_power"}

\* A selector each table of accessors resolves, and one neither does.
ExprBases(name) ==
    IF name = "object_power" THEN {"OBJ_POWER_TO_DAM", "NOPE"} ELSE {"PLAYER_LEVEL", "NOPE"}

\* The message directives of each grammar.
MsgDirectives(name) ==
    CASE name = "object" -> {"msg_self", "msg_other"}
      [] name = "curse" -> {"msg"}
      [] name = "activation" -> {"msg_self", "msg_other", "msg"}
      [] OTHER -> {}

record_name == \E name \in EffectFiles : Plain(name, Str("name", "b"))

record_effect == \E name \in WithEffects : Plain(name, Str("effect", "HEAL_HP"))

record_effect_yx == \E name \in WithEffects : Plain(name, Num2("effect-yx", 1, 2))

record_dice == \E name \in EffectFiles : Plain(name, Str("dice", "$B"))

record_expr ==
    \E name \in EffectFiles : \E base \in ExprBases(name) :
        Plain(name, Sym3("expr", "B", base, "+ 1"))

record_msg == \E name \in WithEffects : \E d \in MsgDirectives(name) : Plain(name, Str(d, "m"))

\* The file parser name has read the header of its first record on top of
\* world w; file holds the lines read after that header.
InitOpen(name, w) ==
    LET w1 == run_parser(name, [w EXCEPT !.priv = InitialPriv(name)], <<Str("name", "a")>>) IN
    /\ parser = name
    /\ pc = "run"
    /\ file = <<>>
    /\ ret = PARSE_ERROR_NONE
    /\ priv = w1.priv
    /\ tables = w1.tables
    /\ z_info = w1.z_info
    /\ nfree = <<>>
    /\ reads = {}
    /\ ncleanup = 0
    /\ nexpr = 0
    /\ data = sound_data_zero
    /\ mixer = mixer_zero

InitEffect ==
    \/ InitOpen("activation", Fresh)
    \/ InitOpen("curse", Fresh)
    \/ InitOpen("object", WithBases(object_base_full_txt))
    \/ InitOpen("object_power", WithKinds(object_base_full_txt))

NextEffect ==
    \/ record_name
    \/ record_effect
    \/ record_effect_yx
    \/ record_dice
    \/ record_expr
    \/ record_msg

SpecEffect == InitEffect /\ [][NextEffect]_vars

\* The effects of the record on top of list p of file parser name.
EffectsOf(name, p) == IF name = "curse" THEN p[1].obj[1].effect ELSE p[1].effect

\* The current record has no effect yet.
NoEffect ==
    /\ parser \in WithEffects
    /\ priv # <<>>
    /\ EffectsOf(parser, priv) = <<>>

\* The newest effect of the current record, or the power calculation, has
\* no dice yet.
NoDice ==
    /\ priv # <<>>
    /\ \/ parser = "object_power" /\ priv[1].dice = <<>>
       \/ /\ parser \in WithEffects
          /\ EffectsOf(parser, priv) # <<>>
          /\ EffectsOf(parser, priv)[1].dice = <<>>

\* The line passes without error and without a change to any record.
SilentSkip ==
    /\ ret' = PARSE_ERROR_NONE
    /\ pc' = "run"
    /\ <<priv', tables', z_info'>> = <<priv, tables, z_info>>

\* Some directive of set D is dispatched.
DispatchesAny(D) == \E d \in D : Dispatches(d)

\* C13, as the claim has it: on an object, curse or activation record with
\* no effect, effect-yx, dice, expr and every message directive return no
\* error and change nothing; so does expr when the newest effect (or the
\* power calculation) has no dice.
C13_NoEffectSkipsAllMessages ==
    [][((NoEffect /\ DispatchesAny({"effect-yx", "dice", "expr"} \cup MsgDirectives(parser)))
           \/ (NoDice /\ Dispatches("expr")))
          => SilentSkip]_vars

\* C13, amended: the directives that are skipped on a record with no effect
\* are effect-yx, dice, expr and the messages of the effect (msg_self and
\* msg_other of objects and activations, msg of curses); expr is skipped as
\* well when the newest effect, or the power calculation, has no dice.  The
\* msg directive of an activation is no effect message: it returns no error
\* and appends its text to the message of the activation.
C13_NoEffectSkipsEffectFields ==
    [][/\ ((NoEffect /\ DispatchesAny({"effect-yx", "dice", "expr", "msg_self", "msg_other"}))
              \/ (NoEffect /\ parser = "curse" /\ Dispatches("msg"))
              \/ (NoDice /\ Dispatches("expr")))
             => SilentSkip
       /\ (parser = "activation" /\ Dispatches("msg")) =>
              /\ ret' = PARSE_ERROR_NONE
              /\ priv' = [priv EXCEPT ![1].message =
                                         string_append(@, file'[Len(file')].s1)]
              /\ priv' # priv]_vars

\* An object record with no effect was handed a msg_self line, a curse
\* record with no effect a dice line: both were passed over.
C13_Witness ==
    /\ pc = "run"
    /\ ret = PARSE_ERROR_NONE
    /\ file # <<>>
    /\ NoEffect
    /\ \/ parser = "object" /\ file[Len(file)].d = "msg_self"
       \/ parser = "curse" /\ file[Len(file)].d = "dice"

\* The expr line just dispatched finds dice to bind in, and names a
\* selector no accessor table has.
UnresolvableSelector ==
    /\ Dispatches("expr")
    /\ parser \in EffectFiles
    /\ ~NoEffect
    /\ ~NoDice
    /\ LET base == file'[Len(file')].s2
       IN  IF parser = "object_power" THEN power_calculation_by_name(base) = "NULL"
           ELSE spell_value_base_by_name(base) = "NULL"

\* C14: an expr directive that reaches the dice of its record with a
\* base-value selector that resolves to nothing returns PARSE_ERROR_INVALID_EXPRESSION and binds nothing: the record and
\* its dice are as they were.
C14_UnresolvableSelectorIsRefused ==
    [][UnresolvableSelector =>
           /\ ret' = "PARSE_ERROR_INVALID_EXPRESSION"
           /\ priv' = priv]_vars

\* The dice slots of the current record, newest first: one per effect, or
\* the one slot of a power calculation.
DiceSlots(name, p) ==
    IF name = "object_power" THEN <<p[1].dice>>
    ELSE [i \in 1..Len(EffectsOf(name, p)) |-> EffectsOf(name, p)[i].dice]

\* The slot of the dice parsed last for the record: a dice line writes to
\* the newest effect, so the filled slot of the newest effect that has one.
LastDice(slots) ==
    LET has == {i \in 1..Len(slots) : slots[i] # <<>>}
    IN  IF has = {} THEN 0 ELSE CHOOSE i \in has : \A j \in has : i <= j

\* The expression the expr line just dispatched carries.
ExprOf(name, dir) ==
    [base |-> IF name = "object_power" THEN power_calculation_by_name(dir.s2)
              ELSE spell_value_base_by_name(dir.s2),
     operations |-> dir.s3]

\* Slot i of the record holds the term of the line just dispatched, bound
\* to its expression, and every other slot is as it was.
BoundIn(i) ==
    LET dir == file'[Len(file')]
        old == DiceSlots(parser, priv)
        new == DiceSlots(parser, priv')
    IN  /\ ret' = PARSE_ERROR_NONE
        /\ Len(new) = Len(old)
        /\ new[i][1].expressions[dir.s1] = <<ExprOf(parser, dir)>>
        /\ \A j \in 1..Len(old) : j # i => new[j] = old[j]

\* C15, as the claim has it: whatever the order of effect, dice and expr
\* lines, an expr line binds its term in the dice parsed last for the
\* current record.
C15_ExprBindsInLastDice ==
    [][(Dispatches("expr") /\ parser \in EffectFiles
           /\ LastDice(DiceSlots(parser, priv)) # 0)
          => BoundIn(LastDice(DiceSlots(parser, priv)))]_vars

\* C15, amended: an expr line binds its term in the dice of the newest
\* effect of the current record (the dice of the record, for a power
\* calculation).  When the newest effect has no dice the line binds
\* nothing, in the dice of an older effect neither: after effect, dice,
\* effect, expr the term of the first dice is still unbound.
C15_ExprBindsInDiceOfNewestEffect ==
    [][(Dispatches("expr") /\ parser \in EffectFiles) =>
           IF DiceSlots(parser, priv) # <<>> /\ DiceSlots(parser, priv)[1] # <<>>
           THEN BoundIn(1)
           ELSE SilentSkip]_vars

\* The lines effect, dice, effect, expr were read for one record: the
\* newest effect has no dice and the term of the older dice is unbound.
C15_Witness ==
    /\ parser \in WithEffects
    /\ pc = "run"
    /\ Len(file) = 4
    /\ <<file[1].d, file[2].d, file[3].d, file[4].d>> = <<"effect", "dice", "effect", "expr">>
    /\ DiceSlots(parser, priv)[1] = <<>>
    /\ DiceSlots(parser, priv)[2][1].expressions["B"] = <<>>

-----------------------------------------------------------------------------
(* The walk over the object bases read *)

WalkTvals == {"sword", "light", "7"}

WalkNames == {"Sword~", "Blade~"}

walk_name ==
    \E t \in WalkTvals : \E n \in WalkNames : Plain("object_base", Sym2("name", t, n))

NextWalk ==
    \/ Start({"object_base"})
    \/ walk_name
    \/ End({"object_base"})

InitWalk == InitIdle(Fresh)

SpecWalk == InitWalk /\ [][NextWalk]_vars

\* The step is the finish of the file being read.
Finishes ==
    /\ pc = "run"
    /\ pc' \in {"finished", "undefined"}
    /\ file' = file

\* C27: the finish of object_base.txt returns whatever list the file left,
\* and has then visited every node of it: each base whose tval is below
\* TV_MAX is in kb_info (a node is freed where it is copied), a base whose
\* tval is not below TV_MAX being passed over on the way to the next node.
C27_WalkPassesEveryBase ==
    [][(parser = "object_base" /\ Finishes) =>
          /\ pc' = "finished"
          /\ \A i \in 1..Len(priv.kb) :
                 priv.kb[i].tval < TV_MAX =>
                     tables'.kb_info.rows[priv.kb[i].tval + 1] # base_zero]_vars

-----------------------------------------------------------------------------
(* The depths egos and artifacts are allocated at *)

AllocFiles == {"ego", "artifact"}

AllocStrings == {"1 to 5", "0 to 300", "-1 to 5", "4294967296 to 5", "3 to"}

alloc_line ==
    \E name \in AllocFiles : \E tmp \in AllocStrings : \E low \in Junk :
        Line(name, SymNum("alloc", tmp, 10), "crash", low)

alloc_name == \E name \in AllocFiles : Plain(name, Str("name", "a"))

InitAlloc == InitIdle(WithAll)

NextAlloc ==
    \/ Start(AllocFiles)
    \/ alloc_name
    \/ alloc_line
    \/ End(AllocFiles)

SpecAlloc == InitAlloc /\ [][NextAlloc]_vars

\* The string has not the form "N to M".
MalformedRange(tmp) == Len(Numerals(tmp)) # 2

\* The string has the form "N to M" with N or M smaller than 0 or greater
\* than 255.
OutsideRange(tmp) ==
    /\ Len(Numerals(tmp)) = 2
    /\ \E i \in 1..2 : Numerals(tmp)[i] \notin {"0", "1", "3", "5"}

\* Every ego and artifact, read or finished, has its two depths in 0..255.
AllocInRange ==
    /\ parser \in AllocFiles =>
           \A i \in 1..Len(priv) :
               priv[i].alloc_min \in 0..255 /\ priv[i].alloc_max \in 0..255
    /\ \A t \in {"e_info", "a_info"} :
           \A i \in 1..Len(tables[t].rows) :
               /\ tables[t].rows[i].alloc_min \in 0..255
               /\ tables[t].rows[i].alloc_max \in 0..255

\* C26: an alloc line of ego_item.txt or artifact.txt whose range has not
\* the form "N to M" returns PARSE_ERROR_INVALID_ALLOCATION, one whose N or M
\* is outside 0..255 returns PARSE_ERROR_OUT_OF_BOUNDS, and either leaves
\* alloc_min and alloc_max of the record as they were; so alloc_min and
\* alloc_max of every ego and artifact are in 0..255 at all times.
C26_AllocRangeIsChecked ==
    /\ []AllocInRange
    /\ [][(Dispatches("alloc") /\ (MalformedRange(file'[Len(file')].s1)
                                    \/ OutsideRange(file'[Len(file')].s1))) =>
              /\ ret' = (IF MalformedRange(file'[Len(file')].s1)
                         THEN "PARSE_ERROR_INVALID_ALLOCATION"
                         ELSE "PARSE_ERROR_OUT_OF_BOUNDS")
              /\ priv'[1].alloc_min = priv[1].alloc_min
              /\ priv'[1].alloc_max = priv[1].alloc_max]_vars

-----------------------------------------------------------------------------
(* The expression an expr line builds *)

ExprTerms == {"B", "C"}

ExprOps == {"+ 1", "?"}

\* A selector the accessors of the file resolve.
GoodBase(name) == IF name = "object_power" THEN "OBJ_POWER_TO_DAM" ELSE "PLAYER_LEVEL"

expr_line ==
    \E name \in EffectFiles : \E term \in ExprTerms : \E ops \in ExprOps :
        Plain(name, Sym3("expr", term, GoodBase(name), ops))

NextExpr ==
    \/ record_effect
    \/ record_dice
    \/ expr_line

SpecExpr == InitEffect /\ [][NextExpr]_vars

\* C25: whatever an expr line returns, the expression its callback made
\* with expression_new() has been freed by the time the callback returns: no
\* expression is left allocated that nothing owns.
C25_NoExpressionLeftBehind == nexpr = 0

-----------------------------------------------------------------------------
(* Dice strings that parse and dice strings that do not *)

DiceStrings == {"$B", "1d4", "2x6"}

dice_line == \E name \in EffectFiles : \E str \in DiceStrings : Plain(name, Str("dice", str))

NextDice ==
    \/ record_name
    \/ record_effect
    \/ dice_line

SpecDice == InitEffect /\ [][NextDice]_vars

\* The dice slot a dice line of file parser name writes to, for the record
\* on top of list p: that of its newest effect, or of the power calculation.
TargetDice(name, p) == DiceSlots(name, p)[1]

\* C24: a dice line for a record that has an effect to take the dice (or for
\* a power calculation) either carries a string that parses, and then the
\* target holds fresh dice of that string, or carries one that does not, and
\* then the line returns PARSE_ERROR_INVALID_DICE and the records are as
\* they were, the dice of the target among them.
C24_BadDiceLeaveTheDice ==
    [][(Dispatches("dice") /\ ~NoEffect) =>
          LET str == file'[Len(file')].s1 IN
          IF str \in {"$B", "1d4"}
          THEN /\ ret' = PARSE_ERROR_NONE
               /\ TargetDice(parser, priv') = <<dice_new(str)>>
          ELSE /\ ret' = "PARSE_ERROR_INVALID_DICE"
               /\ pc' = "quit"
               /\ TargetDice(parser, priv') = TargetDice(parser, priv)
               /\ priv' = priv]_vars

\* An effect of an object got dice, and a second dice line that does not
\* parse was refused: the effect still has the dice of the first.
C24_Witness ==
    /\ parser = "object"
    /\ pc = "quit"
    /\ ret = "PARSE_ERROR_INVALID_DICE"
    /\ Len(file) >= 3
    /\ file[Len(file)] = Str("dice", "2x6")
    /\ file[Len(file) - 1] = Str("dice", "1d4")
    /\ TargetDice(parser, priv) = <<dice_new("1d4")>>

-----------------------------------------------------------------------------
(* The artifact table and its shelves *)

\* C23: once artifact.txt with N artifacts is finished, a_info has N + 9
\* entries and a_max is N; entry i of the first N has aidx i, and each of the
\* nine entries behind them is zero but for its aidx, which is its position.
C23_ShelvesFollowArtifacts ==
    (parser = "artifact" /\ pc = "finished") =>
        LET N == Len(Headers)
            rows == tables.a_info.rows
        IN  /\ Len(rows) = N + ShelvesForRings
            /\ z_info.a_max = N
            /\ \A i \in 1..N : rows[i].aidx = i - 1
            /\ \A i \in (N + 1)..(N + ShelvesForRings) :
                   rows[i] = [artifact_zero EXCEPT !.aidx = i - 1]

\* Two artifacts and the nine shelves behind them, the last at position 10.
C23_Witness ==
    /\ parser = "artifact"
    /\ pc = "finished"
    /\ Len(Headers) = 2
    /\ z_info.a_max = 2
    /\ tables.a_info.rows[2].name # NullStr
    /\ tables.a_info.rows[3].name = NullStr
    /\ tables.a_info.rows[11].aidx = 10

\* The indices of the rows met by following next from row i of rows.
RECURSIVE chain_from(_, _)
chain_from(rows, i) ==
    IF rows[i + 1].next = NullPtr \/ rows[i + 1].next[2] <= i THEN <<i>>
    ELSE <<i>> \o chain_from(rows, rows[i + 1].next[2])

\* C29: while artifact.txt is read, and whatever number of synthetic kinds
\* it has added, following next from row 0 of k_info meets every row of the
\* table in index order, up to row k_max - 1.
C29_ChainReachesEveryKind ==
    (parser = "artifact" /\ z_info.k_max > 0) =>
        chain_from(tables.k_info.rows, 0) = [i \in 1..z_info.k_max |-> i - 1]

-----------------------------------------------------------------------------
(* The list a file accumulates *)

\* The step reads a line with directive d.
ReadsLine(d) ==
    /\ pc = "run"
    /\ Len(file') = Len(file) + 1
    /\ file'[Len(file')].d = d

\* The step reads a line that is not the header of its file.
ReadsField ==
    /\ pc = "run"
    /\ Len(file') = Len(file) + 1
    /\ file'[Len(file')].d # HeaderOf(parser)

\* C22: a header line puts exactly one new record in front of the list, its
\* next being the head there was (NULL for the first record), and leaves all
\* the records there were as they were; any other line leaves the list as
\* long as it was and every record behind the head untouched.
C22_OnlyTheHeadChanges ==
    [][/\ ReadsLine(HeaderOf(parser)) =>
              /\ Len(priv') = Len(priv) + 1
              /\ Tail(priv') = priv
              /\ priv'[1].next = (IF priv = <<>> THEN NullPtr ELSE NodePtr)
       /\ ReadsField =>
              /\ Len(priv') = Len(priv)
              /\ priv # <<>> => Tail(priv') = Tail(priv)]_vars

\* Two slays, each with the multiplier its own line gave it.
C22_Witness ==
    /\ parser = "slay"
    /\ pc = "run"
    /\ Len(priv) = 2
    /\ priv[1].next = NodePtr
    /\ priv[2].next = NullPtr
    /\ priv[1].multiplier = 2
    /\ priv[2].multiplier = 1

-----------------------------------------------------------------------------
(* One file after another *)

\* init_parse_X of the next file, once the file before it is finished.
NextFile(name) ==
    /\ pc = "finished"
    /\ tables[TableOf(name)].ptr = 0
    /\ \A t \in Needs(name) : tables[t].ptr # 0
    /\ parser' = name
    /\ pc' = "run"
    /\ priv' = InitialPriv(name)
    /\ file' = <<>>
    /\ ret' = PARSE_ERROR_NONE
    /\ UNCHANGED <<tables, z_info, nfree, reads, ncleanup, nexpr, data, mixer>>

Then(files) == \E name \in files : NextFile(name)

\* object.txt with two swords and a light among its kinds.
object_swords_txt ==
    object_txt \o <<Str("name", "& Rapier~"), Str("type", "sword"),
                    Str("name", "& Torch~"), Str("type", "light")>>

WithSwords == Load("object", WithActs, object_swords_txt)

TypeFiles == {"ego", "object_power", "artifact"}

TypeTvals == {"sword", "bogus"}

record_type ==
    \E name \in ItemFiles : \E t \in TypeTvals : Plain(name, Str("type", t))

artifact_sword == Plain("artifact", Sym2("base-object", "sword", "Star"))

InitType == InitIdle(WithSwords)

NextType ==
    \/ Start(ItemFiles)
    \/ Then({"artifact"})
    \/ Plain("ego", Str("name", "a"))
    \/ Plain("object_power", Str("name", "a"))
    \/ record_type
    \/ Plain("artifact", Str("name", "a"))
    \/ artifact_sword
    \/ End(TypeFiles)

SpecType == InitType /\ [][NextType]_vars

\* The indices of the object kinds of tval t.
KindsOf(t) == {i \in 0..(z_info.k_max - 1) : tables.k_info.rows[i + 1].tval = t}

\* C21: a type line of ego_item.txt or object_power.txt puts in front of
\* the possible items of the record one entry per object kind that has the
\* tval when the line is read, each entry the index of its kind and none
\* twice, and keeps the entries the record had; the possible items of a
\* finished ego or power calculation never change afterwards, whatever kinds
\* are appended to the object kinds.
C21_TypeExpandsAtParseTime ==
    [][/\ (parser \in ItemFiles /\ Dispatches("type")) =>
              LET K == KindsOf(tval_find_idx(file'[Len(file')].s1))
                  old == priv[1].poss_items
                  new == priv'[1].poss_items
                  n == Len(new) - Len(old)
              IN  /\ n = Cardinality(K)
                  /\ {new[j] : j \in 1..n} = K
                  /\ SubSeq(new, n + 1, Len(new)) = old
       /\ \A t \in {"e_info", "calculations"} :
              tables[t].ptr # 0 => tables'[t] = tables[t]]_vars

\* An ego made for swords when the kinds held two of them was finished, and
\* artifact.txt then appended a third sword: the ego still lists the two.
C21_Witness ==
    /\ parser = "artifact"
    /\ z_info.e_max = 1
    /\ tables.e_info.rows[1].poss_items = <<2, 1>>
    /\ z_info.k_max = 5
    /\ tables.k_info.rows[5].tval = tval_find_idx("sword")
    /\ KindsOf(tval_find_idx("sword")) = {1, 2, 4}

-----------------------------------------------------------------------------
(* The files read once the object bases, curses and activations are loaded *)

LaterFiles == {"object", "ego", "artifact", "object_power"}

ActNames == {"a", "zz"}

\* level and weight are read with parser_getint.
Levels == {-1, 3}

LaterSvals == {"Torch", "Phial"}

object_type == \E t \in Tvals : Plain("object", Str("type", t))

object_act ==
    \E v \in ActNames : \E ub \in UB : \E junk \in Junk :
        Line("object", Str("act", v), ub, junk)

ego_act ==
    \E v \in ActNames : \E ub \in UB : \E junk \in Junk :
        Line("ego", Str("act", v), ub, junk)

artifact_light == \E sv \in LaterSvals : Plain("artifact", Sym2("base-object", "light", sv))

artifact_level_int == \E v \in Levels : Plain("artifact", Num("level", v))

artifact_weight_int == \E v \in Levels : Plain("artifact", Num("weight", v))

artifact_graphics ==
    \E ub \in UB : Line("artifact", Sym2("graphics", "~", "r"), ub, 0)

artifact_act ==
    \E v \in ActNames : \E ub \in UB : \E junk \in Junk :
        Line("artifact", Str("act", v), ub, junk)

InitLater == InitIdle(WithActs) \/ InitIdle(WithAll)

NextLater ==
    \/ Start(LaterFiles)
    \/ Plain("object", Str("name", "a"))
    \/ object_type
    \/ object_act
    \/ Plain("ego", Str("name", "a"))
    \/ ego_act
    \/ Plain("artifact", Str("name", "a"))
    \/ artifact_light
    \/ artifact_level_int
    \/ artifact_weight_int
    \/ artifact_graphics
    \/ artifact_act
    \/ Plain("object_power", Str("name", "a"))
    \/ End(LaterFiles)

SpecLater == InitLater /\ [][NextLater]_vars

\* The object-base rows differ at most in their sval counts.
BasesKeptButSvalCounts ==
    /\ tables'.kb_info.ptr = tables.kb_info.ptr
    /\ Len(tables'.kb_info.rows) = Len(tables.kb_info.rows)
    /\ \A t \in DOMAIN tables.kb_info.rows :
           [tables'.kb_info.rows[t] EXCEPT !.num_svals = tables.kb_info.rows[t].num_svals]
               = tables.kb_info.rows[t]

\* The curse rows differ at most in the kind and sval of their objects.
CursesKeptButKinds ==
    /\ tables'.curses.ptr = tables.curses.ptr
    /\ Len(tables'.curses.rows) = Len(tables.curses.rows)
    /\ \A i \in DOMAIN tables.curses.rows :
           [tables'.curses.rows[i] EXCEPT
               !.obj[1].kind = tables.curses.rows[i].obj[1].kind,
               !.obj[1].sval = tables.curses.rows[i].obj[1].sval]
               = tables.curses.rows[i]

\* The object-kind table is finished: a later file than object.txt is read.
KindsFinished == parser' \in LaterFiles \ {"object"}

\* Row i of the object kinds differs at most in the fields the artifact
\* directives write to the base kind of an artifact.
KindKeptButArtifactFields(i) ==
    [tables'.k_info.rows[i] EXCEPT
        !.level = tables.k_info.rows[i].level,
        !.weight = tables.k_info.rows[i].weight,
        !.activation = tables.k_info.rows[i].activation,
        !.d_char = tables.k_info.rows[i].d_char,
        !.d_attr = tables.k_info.rows[i].d_attr]
        = tables.k_info.rows[i]

ActRefOf(name, p, t, z) ==
    IF name = "artifact" /\ p[1].tval = TV_LIGHT
    THEN LET k == lookup_kind([World EXCEPT !.tables = t, !.z_info = z], p[1].tval, p[1].sval)
         IN  IF k < 0 THEN NullPtr ELSE t.k_info.rows[k + 1].activation
    ELSE p[1].activation

\* The rows of the activation table that carry the name.
ActRows(name) ==
    {i \in 0..(z_info.act_max - 1) : tables.activations.rows[i + 1].name = name}

\* C16: an act directive of object.txt, ego_item.txt or artifact.txt that
\* names an activation the finished table lacks returns an error and leaves
\* the activation reference as it was; one that names an activation of the
\* table returns no error and stores the row of lowest index with that name.
C16_ActResolvesOrFails ==
    [][(Dispatches("act") /\ parser \in {"object", "ego", "artifact"}) =>
           LET name == file'[Len(file')].s1
               ref == ActRefOf(parser, priv', tables', z_info')
           IN  IF ActRows(name) = {}
               THEN /\ ret' # PARSE_ERROR_NONE
                    /\ ref = ActRefOf(parser, priv, tables, z_info)
               ELSE /\ ret' = PARSE_ERROR_NONE
                    /\ ref[1] = "activations"
                    /\ ref[2] \in ActRows(name)
                    /\ \A i \in ActRows(name) : ref[2] <= i]_vars

\* The index of the base kind of the current artifact, -1 when no kind has
\* its tval and sval.
BaseKind == lookup_kind(World, priv[1].tval, priv[1].sval)

\* C17, as the claim has it: an artifact level or weight line always sets
\* the field of the artifact; it copies the value into the base kind exactly
\* when the kind holds -1 there, and the kind no longer holds -1 afterwards.
C17_SentinelCopiedOnce ==
    [][\A d \in {"level", "weight"} :
           (parser = "artifact" /\ Dispatches(d)) =>
               LET v == file'[Len(file')].n
                   k == BaseKind
               IN  /\ priv'[1][d] = v
                   /\ k >= 0 =>
                          /\ tables'.k_info.rows[k + 1][d] =
                                 IF tables.k_info.rows[k + 1][d] = -1 THEN v
                                 ELSE tables.k_info.rows[k + 1][d]
                          /\ tables'.k_info.rows[k + 1][d] # -1]_vars

\* C17, amended: when some kind has the tval and sval of the artifact, an
\* artifact level or weight line returns no error, sets the field of the
\* artifact, and copies the value into that kind exactly when the kind holds
\* -1 there; the kind holds -1 afterwards only if the value copied is -1
\* itself.  When no kind has the tval and sval the line aborts the process
\* and sets nothing.
C17_SentinelCopiedUnlessNoKind ==
    [][\A d \in {"level", "weight"} :
           (parser = "artifact" /\ Dispatches(d)) =>
               LET v == file'[Len(file')].n
                   k == BaseKind
               IN  IF k < 0
                   THEN pc' = "abort" /\ priv' = priv /\ tables' = tables
                   ELSE /\ ret' = PARSE_ERROR_NONE
                        /\ priv'[1][d] = v
                        /\ tables'.k_info.rows[k + 1][d] =
                               IF tables.k_info.rows[k + 1][d] = -1 THEN v
                               ELSE tables.k_info.rows[k + 1][d]
                        /\ tables'.k_info.rows[k + 1][d] = -1 =>
                               v = -1 /\ tables.k_info.rows[k + 1][d] = -1]_vars

\* A level line was read for an artifact whose base kind, made by its
\* base-object line, held the sentinel: artifact and kind hold the value.
C17_Witness ==
    /\ parser = "artifact"
    /\ pc = "run"
    /\ Len(file) >= 3
    /\ file[Len(file) - 1].d = "base-object"
    /\ file[Len(file)].d = "level"
    /\ file[Len(file)].n = 3
    /\ priv[1].level = 3
    /\ BaseKind >= 0
    /\ KF_INSTA_ART \in tables.k_info.rows[BaseKind + 1].kind_flags
    /\ tables.k_info.rows[BaseKind + 1].level = 3
    /\ tables.k_info.rows[BaseKind + 1].weight = -1

\* The tables whose rows store their own index, and the field that does.
IndexField(t) ==
    CASE t = "k_info" -> "kidx"
      [] t = "e_info" -> "eidx"
      [] t = "a_info" -> "aidx"
      [] t = "activations" -> "index"

Indexed == {"k_info", "e_info", "a_info", "activations"}

\* Every row of a finished indexed table stores its array position.
IndexIsPosition ==
    \A t \in Indexed :
        tables[t].ptr # 0 =>
            \A i \in DOMAIN tables[t].rows : tables[t].rows[i][IndexField(t)] = i - 1

\* Every row of a finished indexed table is the same record, at the same
\* position, in the next state.
RowsStayInPlace ==
    \A t \in Indexed :
        tables[t].ptr # 0 =>
            /\ Len(tables'[t].rows) >= Len(tables[t].rows)
            /\ \A i \in DOMAIN tables[t].rows :
                   /\ tables'[t].rows[i].name = tables[t].rows[i].name
                   /\ tables'[t].rows[i][IndexField(t)] = tables[t].rows[i][IndexField(t)]

\* C18: in every state, each row of the finished object-kind, ego,
\* artifact and activation tables stores its array position in kidx, eidx,
\* aidx or index, the kinds an artifact base-object line appends included;
\* and no step moves a row or changes its index.
C18_IndexIsPositionForGood == []IndexIsPosition /\ [][RowsStayInPlace]_vars

\* artifact.txt was finished after one of its base-object lines appended a
\* kind to the three of object.txt: the new kind is row 3 and says so, and
\* the artifact table has its shelves numbered on.
C18_Witness ==
    /\ parser = "artifact"
    /\ pc = "finished"
    /\ z_info.k_max = 4
    /\ Len(tables.k_info.rows) = 4
    /\ tables.k_info.rows[4].kidx = 3
    /\ KF_INSTA_ART \in tables.k_info.rows[4].kind_flags
    /\ z_info.a_max >= 1
    /\ Len(tables.a_info.rows) = z_info.a_max + ShelvesForRings
    /\ tables.a_info.rows[z_info.a_max + ShelvesForRings].aidx
           = z_info.a_max + ShelvesForRings - 1

-----------------------------------------------------------------------------
(* A table loaded again *)

\* init_parse_X for a file whose table has been cleaned up: the load starts
\* over on the globals as cleanup left them, and what the new load allocates
\* is not what the old one released.
Reload(name) ==
    /\ pc = "cleaned"
    /\ parser = name
    /\ \A t \in Needs(name) : tables[t].ptr # 0
    /\ pc' = "run"
    /\ priv' = InitialPriv(name)
    /\ file' = <<>>
    /\ ret' = PARSE_ERROR_NONE
    /\ nfree' = [id \in {i \in DOMAIN nfree : i[1] # TableOf(name)} |-> nfree[id]]
    /\ UNCHANGED <<parser, tables, z_info, reads, ncleanup, nexpr, data, mixer>>

artifact_star_txt == <<Str("name", "a"), Sym2("base-object", "sword", "Star")>>

\* The world once artifact.txt has added a synthetic kind to the kinds read.
WithStar == Load("artifact", WithAll, artifact_star_txt)

InitReload ==
    \/ InitIdle(WithAll)
    \/ InitIdle(WithStar)

NextReload ==
    \/ Release({"object"})
    \/ Reload("object")
    \/ object_name
    \/ Plain("object", Num("level", 1))
    \/ End({"object"})

SpecReload == InitReload /\ [][NextReload]_vars

\* C28: when object.txt has been read again after cleanup and finished, the
\* count of kinds is the number of records the second reading made: the count
\* of the first load, synthetic kinds included, is not added to.
C28_ReloadCountsAfresh ==
    (parser = "object" /\ pc = "finished") => z_info.k_max = Len(Headers)

\* Three kinds and the synthetic kind artifact.txt had added to them were
\* cleaned up, and two kinds were read in their place.
C28_Witness ==
    /\ parser = "object"
    /\ pc = "finished"
    /\ ncleanup = 1
    /\ tables.a_info.ptr # 0
    /\ Len(Headers) = 2
    /\ z_info.k_max = 2
    /\ Len(tables.k_info.rows) = 2

-----------------------------------------------------------------------------
(* The svals of the object kinds *)

NextSval ==
    \/ Start({"object"})
    \/ Plain("object", Str("name", "a"))
    \/ object_type
    \/ End({"object"})
    \/ Then({"artifact"})
    \/ Plain("artifact", Str("name", "a"))
    \/ artifact_sword

InitSval == InitIdle(WithActs)

SpecSval == InitSval /\ [][NextSval]_vars

\* The object kinds there are: the records object.txt has made so far, or
\* the rows of k_info once it is finished.
Kinds ==
    IF parser = "object" /\ pc # "finished" THEN priv
    ELSE SubSeq(tables.k_info.rows, 1, z_info.k_max)

\* C30, as the claim has it: no two object kinds have the same tval and the
\* same sval.
C30_NoSvalTwiceInATval ==
    \A i, j \in 1..Len(Kinds) :
        (i # j /\ Kinds[i].tval = Kinds[j].tval) => Kinds[i].sval # Kinds[j].sval

\* C30, amended: no two object kinds that a type line or a synthetic record
\* gave an sval have the same tval and the same sval, and each such sval is
\* one the counter of the base of its tval has passed; a kind with no type
\* line has tval 0 and sval 0 like every other such kind.
C30_NoAssignedSvalTwiceInATval ==
    /\ \A i, j \in 1..Len(Kinds) :
           (i # j /\ Kinds[i].tval = Kinds[j].tval /\ Kinds[i].sval = Kinds[j].sval)
               => (Kinds[i].sval = 0 /\ Kinds[i].tval = 0)
    /\ \A i \in 1..Len(Kinds) :
           Kinds[i].sval \in 0..tables.kb_info.rows[Kinds[i].tval + 1].num_svals

\* Two swords of object.txt and the synthetic sword artifact.txt added to
\* them have the svals 1, 2 and 3.
C30_Witness ==
    /\ parser = "artifact"
    /\ z_info.k_max = 3
    /\ \A i \in 1..3 :
           /\ tables.k_info.rows[i].tval = tval_find_idx("sword")
           /\ tables.k_info.rows[i].sval = i
    /\ tables.k_info.rows[3].name = "& Star~"

\* The rows of k_info whose tval is t.
RowsOfTval(t) == {i \in 1..z_info.k_max : tables.k_info.rows[i].tval = t}

\* C31: once object.txt is finished, and while artifact.txt adds synthetic
\* kinds to it, num_svals of the base of every tval is the number of rows of
\* k_info that have the tval, whatever lines the files held.
C31_SvalCountIsKindCount ==
    ((parser = "object" /\ pc = "finished") \/ (parser = "artifact" /\ pc = "run")) =>
        \A t \in 0..(TV_MAX - 1) :
            tables.kb_info.rows[t + 1].num_svals = Cardinality(RowsOfTval(t))

\* C32: every row of k_info, a synthetic kind as much as a kind object.txt
\* made, has all the kind flags of the object base of its tval.
C32_KindHasFlagsOfItsBase ==
    (tables.k_info.ptr # 0 /\ (parser = "artifact" \/ pc = "finished")) =>
        \A i \in 1..z_info.k_max :
            tables.kb_info.rows[tables.k_info.rows[i].tval + 1].kind_flags
                \subseteq tables.k_info.rows[i].kind_flags

\* The lines of the file read whose record has tval t.
LinesOfTval(t) == {i \in 1..Len(file) : tval_find_idx(file[i].s1) = t}

\* Row t of kb_info holds the record of the first line of the file that has
\* tval t, and is zero when no line has it.
RowOfFirstRecord(t) ==
    LET S == LinesOfTval(t)
        row == tables.kb_info.rows[t + 1]
    IN  IF S = {} THEN row = base_zero
        ELSE LET first == CHOOSE i \in S : \A j \in S : i <= j
             IN  row.tval = t /\ row.name = file[first].s2 /\ row.next = NullPtr

-----------------------------------------------------------------------------
(* The index of a projection *)

\* A code line gives its record the index after that of the record before
\* it, 0 for the first, and fails when that index is the index of an element
\* with another name.
CodeLineCountsOn ==
    (parser = "projection" /\ ReadsLine("code")) =>
        LET index == IF priv = <<>> THEN 0 ELSE priv[1].index + 1
            code == file'[Len(file')].s1
        IN  /\ priv'[1].index = index
            /\ (index < ELEM_MAX /\ code # list_element_names[index + 1]) =>
                   ret' = "PARSE_ERROR_ELEMENT_NAME_MISMATCH"

\* C34: once projection.txt is finished, every row of projections has its
\* position in the array as its index; the code lines count the indexes up
\* from 0, and a code line whose index is below ELEM_MAX and whose code is not
\* the name of the element of that index gives the element name mismatch.
C34_IndexIsPosition ==
    /\ []((parser = "projection" /\ pc = "finished") =>
            \A i \in 1..z_info.projection_max : tables.projections.rows[i].index = i - 1)
    /\ [][CodeLineCountsOn]_vars

\* The two elements and a projection after them were read and finished.
C34_Witness ==
    /\ parser = "projection"
    /\ pc = "finished"
    /\ z_info.projection_max = 3
    /\ tables.projections.rows[3].index = 2
    /\ file[3].s1 = "ARROW"

-----------------------------------------------------------------------------
(* What a slay is a slay of *)

RaceFlags == {"EVIL", "ORC", "SMART"}

MonsterBases == {"orc", "troll"}

slay_race_flag == \E v \in RaceFlags : Plain("slay", Str("race-flag", v))

slay_base == \E v \in MonsterBases : Plain("slay", Str("base", v))

InitSlay == InitIdle(Fresh)

NextSlay ==
    \/ Start({"slay"})
    \/ slay_code
    \/ slay_race_flag
    \/ slay_base
    \/ End({"slay"})

SpecSlay == InitSlay /\ [][NextSlay]_vars

\* The slay has a race flag and a monster base, both.
FlagAndBase(slay) == slay.race_flag # 0 /\ slay.base # NullStr

\* A race-flag line on a record that has a base, or a base line on a record
\* that has a race flag, is an error: the invalid slay when the line names a
\* flag or a base there is, and the error of the unknown name otherwise.
SecondOfTheTwoFails ==
    /\ (parser = "slay" /\ Dispatches("race-flag") /\ priv[1].base # NullStr) =>
           ret' = IF lookup_flag(r_info_flags, file'[Len(file')].s1) # 0
                  THEN "PARSE_ERROR_INVALID_SLAY" ELSE "PARSE_ERROR_INVALID_FLAG"
    /\ (parser = "slay" /\ Dispatches("base") /\ priv[1].race_flag # 0) =>
           ret' = IF lookup_monster_base(file'[Len(file')].s1)
                  THEN "PARSE_ERROR_INVALID_SLAY" ELSE "PARSE_ERROR_INVALID_MONSTER_BASE"

-----------------------------------------------------------------------------
(* The code of an object property *)

PropertyTypes == {"stat", "flag", "resistance", "curse"}

PropertyCodes == {"STR", "FEATHER", "POIS", "SLOW"}

property_name == Plain("object_property", Str("name", "a"))

property_type == \E v \in PropertyTypes : Plain("object_property", Str("type", v))

property_code == \E v \in PropertyCodes : Plain("object_property", Str("code", v))

InitProperty == InitIdle(Fresh)

NextProperty ==
    \/ Start({"object_property"})
    \/ property_name
    \/ property_type
    \/ property_code
    \/ End({"object_property"})

SpecProperty == InitProperty /\ [][NextProperty]_vars

\* The type the last type line of the record being read gave it, "" when the
\* record has had no type line.
TypeRead ==
    LET S == LinesOf(BlockOf(Len(file)), "type")
    IN  IF S = {} THEN "" ELSE file[Last(S)].s1

\* The names a code is looked up in, by the type of the property.
CodesOfType(type) ==
    CASE type \in {"stat", "mod"} -> obj_mods
      [] type = "flag" -> obj_flag_codes
      [] type \in {"ignore", "resistance", "vulnerability", "immunity"} -> list_element_names
      [] OTHER -> <<>>

\* C36: a code line on a record that has had no type line gives the missing
\* property type error and changes nothing; after a type line the code is
\* looked up in the names of that type, its place there becomes the index
\* of the property, and a code that is not among them gives the invalid code
\* error and changes nothing.
C36_CodeComesAfterType ==
    [][(parser = "object_property" /\ Dispatches("code")) =>
          LET code == file'[Len(file')].s1
              names == CodesOfType(TypeRead)
          IN  IF TypeRead = ""
              THEN ret' = "PARSE_ERROR_MISSING_OBJ_PROP_TYPE" /\ priv' = priv
              ELSE IF \E i \in 1..Len(names) : names[i] = code
              THEN /\ ret' = PARSE_ERROR_NONE
                   /\ names[priv'[1].index + 1] = code
                   /\ priv' = [priv EXCEPT ![1].index = priv'[1].index]
              ELSE ret' = "PARSE_ERROR_INVALID_OBJ_PROP_CODE" /\ priv' = priv]_vars

\* A flag property was given the code of a flag and then the code of an
\* element: the index is that of the flag still.
C36_Witness ==
    /\ parser = "object_property"
    /\ pc = "quit"
    /\ ret = "PARSE_ERROR_INVALID_OBJ_PROP_CODE"
    /\ Len(file) = 4
    /\ file[2].s1 = "flag"
    /\ file[3].s1 = "FEATHER"
    /\ file[4] = Str("code", "POIS")
    /\ priv[1].index = 2

-----------------------------------------------------------------------------
(* The chain of effects of a record *)

ChainEffects == {"HEAL_HP", "NOURISH", "XYZZY"}

chain_effect ==
    \E name \in WithEffects : \E e \in ChainEffects : Plain(name, Str("effect", e))

chain_dice == \E name \in WithEffects : Plain(name, Str("dice", "1d4"))

InitEffects ==
    \/ InitOpen("activation", Fresh)
    \/ InitOpen("curse", Fresh)
    \/ InitOpen("object", WithBases(object_base_full_txt))

NextEffects ==
    \/ record_name
    \/ chain_effect
    \/ record_effect_yx
    \/ chain_dice
    \/ record_msg

SpecEffects == InitEffects /\ [][NextEffects]_vars

\* List p of file parser name with e as the effects of the record on top.
WithChain(name, p, e) ==
    IF name = "curse" THEN [p EXCEPT ![1].obj[1].effect = e] ELSE [p EXCEPT ![1].effect = e]

\* An effect line that is accepted puts one effect, the one it names, in
\* front of the effects of the record on top; one that is refused leaves
\* them; nothing else changes.
EffectLinePrepends ==
    (parser \in WithEffects /\ Dispatches("effect")) =>
        LET old == EffectsOf(parser, priv)
            new == EffectsOf(parser, priv')
        IN  /\ priv' = WithChain(parser, priv, new)
            /\ tables' = tables
            /\ IF ret' = PARSE_ERROR_NONE
               THEN /\ Len(new) = Len(old) + 1
                    /\ Tail(new) = old
                    /\ new[1].index = file'[Len(file')].s1
               ELSE new = old

\* A line of a directive of D on a record that has an effect changes the
\* newest effect of that record and nothing else.
OnlyNewestEffectChanges(D) ==
    (parser \in WithEffects /\ DispatchesAny(D) /\ EffectsOf(parser, priv) # <<>>) =>
        LET old == EffectsOf(parser, priv)
            new == EffectsOf(parser, priv')
        IN  /\ priv' = WithChain(parser, priv, new)
            /\ tables' = tables
            /\ Len(new) = Len(old)
            /\ Tail(new) = Tail(old)

\* C37, as the claim has it: an accepted effect line prepends one effect
\* and a refused one leaves the chain; effect-yx, dice and every message
\* directive change the newest effect alone.
C37_MessagesChangeNewestEffectOnly ==
    [][/\ EffectLinePrepends
       /\ OnlyNewestEffectChanges({"effect-yx", "dice"} \cup MsgDirectives(parser))]_vars

\* C37, amended: the message directives that change the newest effect alone
\* are msg_self and msg_other of objects and activations and msg of curses.
\* The msg directive of an activation changes no effect: it appends its
\* text to the message of the activation.
C37_EffectFieldsChangeNewestEffectOnly ==
    [][/\ EffectLinePrepends
       /\ OnlyNewestEffectChanges({"effect-yx", "dice", "msg_self", "msg_other"})
       /\ parser = "curse" => OnlyNewestEffectChanges({"msg"})
       /\ (parser = "activation" /\ Dispatches("msg")) =>
              /\ priv' = [priv EXCEPT ![1].message =
                                         string_append(@, file'[Len(file')].s1)]
              /\ tables' = tables]_vars

\* An activation was given two effects and then an effect-yx line: the
\* newer effect, in front, has the y and x and the older has none.
C37_Witness ==
    /\ parser = "activation"
    /\ pc = "run"
    /\ file = <<Str("effect", "HEAL_HP"), Str("effect", "NOURISH"), Num2("effect-yx", 1, 2)>>
    /\ Len(priv[1].effect) = 2
    /\ priv[1].effect[1].index = "NOURISH"
    /\ priv[1].effect[1].y = 1
    /\ priv[1].effect[2].index = "HEAL_HP"
    /\ priv[1].effect[2].y = 0

-----------------------------------------------------------------------------
(* The calls of the sound module on one sound_data *)

MaxCalls == 5

FileTypes == {SDL_NULL, SDL_CHUNK, SDL_MUSIC}

\* The loader stays as it is while the sound module is called.
LoaderIdle ==
    UNCHANGED <<parser, pc, file, ret, priv, tables, z_info, nfree, reads, ncleanup, nexpr>>

\* A call of the sound module is made and returns r; a call the process
\* dies in leaves data as it was.
Call(r) ==
    /\ mixer.state = "run"
    /\ mixer.ncalls < MaxCalls
    /\ data' = r.data
    /\ mixer' = r.m
    /\ LoaderIdle

LoadSound(file_type, ok, ub) == Call(load_sound_sdl(data, mixer, file_type, ok, ub))

PlaySound(chan, ub) == Call(play_sound_sdl(data, mixer, chan, ub))

UnloadSound(ub) == Call(unload_sound_sdl(data, mixer, ub))

load_sound == \E t \in FileTypes : \E ok \in BOOLEAN : \E ub \in UB : LoadSound(t, ok, ub)

play_sound == \E chan \in BOOLEAN : PlaySound(chan, "crash")

unload_sound == UnloadSound("crash")

InitSound == InitIdle(Fresh)

NextSound ==
    \/ load_sound
    \/ play_sound
    \/ unload_sound

SpecSound == InitSound /\ [][NextSound]_vars

\* The call made in this step is call, and it returns.
Returns(call) ==
    /\ mixer'.ncalls = mixer.ncalls + 1
    /\ mixer'.call = call
    /\ mixer'.state = "run"

\* A load of a file type that is not supported, or of a file the mixer
\* does not load, leaves no sdl_sample and a sound that is not loaded.
FailedLoadLeavesNothing ==
    (Returns("load") /\ (mixer'.file_type = SDL_NULL \/ ~mixer'.ok)) =>
        data' = sound_data_zero

\* An unload leaves no sdl_sample and a sound that is not loaded, and an
\* unload that comes after an unload releases nothing.
UnloadLeavesNothing ==
    Returns("unload") =>
        /\ data' = sound_data_zero
        /\ mixer.call = "unload" => (mixer'.freed = {} /\ ~mixer'.sample_freed)

\* A play of a sample of music leaves the sound not loaded, and the
\* sdl_sample where it was.
MusicPlayedIsNotLoaded ==
    (Returns("play") /\ data.plat_data # <<>>
        /\ data.plat_data[1].sample_type = SDL_MUSIC) =>
        /\ ~data'.loaded
        /\ data'.plat_data = data.plat_data

\* C38: whatever load, play and unload calls are made on one sound_data, a
\* sound that is loaded has an sdl_sample; a load that fails and an unload
\* leave it with none and not loaded; a second unload releases nothing; a
\* play of music leaves it not loaded.
C38_LoadedHasSample ==
    /\ [](data.loaded => data.plat_data # <<>>)
    /\ [][FailedLoadLeavesNothing /\ UnloadLeavesNothing /\ MusicPlayedIsNotLoaded]_vars

\* Two samples of music were loaded, as when music is played and loaded
\* again, and both are released; the fifth call, an unload, found no
\* sdl_sample and released nothing.
C38_Witness ==
    /\ mixer.ncalls = 5
    /\ mixer.call = "unload"
    /\ mixer.state = "run"
    /\ Len(mixer.heap) = 2
    /\ \A h \in 1..2 : mixer.heap[h].kind = SDL_MUSIC /\ ~mixer.heap[h].live
    /\ mixer.freed = {}
    /\ ~mixer.sample_freed
    /\ data = sound_data_zero

====
